---- MODULE Spec2Model ----
(***************************************************************************)
(* A model of dcf21/astrolabe: the entry points that build a settings      *)
(* dictionary and render a component, and the layout computed by each      *)
(* component's do_rendering.                                                *)
(*                                                                         *)
(* Lengths are integers in micrometres (the source uses metres as floats), *)
(* angles are integers in degrees or hundredths of a degree, magnitudes    *)
(* are integers in hundredths.  Products are floored to the unit.          *)
(***************************************************************************)
EXTENDS Integers, Sequences, FiniteSets, TLC

VARIABLES
    entry,        \* which code built the settings: "batch", "script" or "call"
    arguments,    \* what fetch_command_line_arguments returned
    component,    \* the component whose method is running
    settings,     \* the settings dictionary handed to the component
    pc,           \* position in the running code
    raised,       \* the exception in flight, or "none"
    batch,        \* the batch driver's loop position
    written,      \* the output files written so far, one entry per write
    page,         \* the GraphicsPage of the render in progress
    result,       \* what the function under call returned
    composite,    \* the component list of the CompositeComponent, and its loop
    bbox,         \* the bounding box render_to_file looked up
    radii,        \* the radii do_rendering has defined
    drawn,        \* the drawing primitives emitted to the context, in order
    stars,        \* fetch_bright_star_list()['stars'].values()
    sticks,       \* the rows of constellation_stick_figures.dat
    tuckerman,    \* the rows of tuckerman.dat
    saints,       \* the rows of saints_days.dat
    cursor,       \* index of the loop iteration do_rendering is at
    x_1974,       \* Julian days of the rows read so far (1974)
    y_1974,       \* solar longitudes of the rows read so far (1974)
    x_1394,       \* Julian days of the rows read so far (1394)
    y_1394        \* solar longitudes of the rows read so far (1394)

vars == <<entry, arguments, component, settings, pc, raised, batch, written,
          page, result, composite, bbox, radii, drawn, stars, sticks, tuckerman, saints, cursor,
          x_1974, y_1974, x_1394, y_1394>>

drawVars == <<radii, drawn, stars, sticks, tuckerman, saints, cursor,
              x_1974, y_1974, x_1394, y_1394>>

renderVars == <<bbox, drawVars>>

----------------------------------------------------------------------------
(* constants.py *)

unit_mm == 1000
unit_cm == 10000

\* Outer radius of astrolabe: 8.5 * unit_cm
r_1 == 85000

\* Distance between circles drawn on back of mother: 0.07 * r_1
d_12 == (7 * r_1) \div 100

\* centre_scaling = 1 / 2.5 * 0.6, applied to a length
centre_scaling(x) == (x * 6) \div 25

\* inclination_ecliptic = 23.5, in quarter degrees
inclination_ecliptic_q == 94

----------------------------------------------------------------------------
(* math: tan, sin, asin and acos on fixed-point values.  Tangents and      *)
(* sines are scaled by 10^4; angles are in hundredths of a degree unless   *)
(* a name says otherwise.                                                   *)

\* floor(10^4 * tan(h / 2 degrees)), h = 0..180; tan(pi / 2) is 1.6e16 in
\* the source's floats and is stored saturated
TanHalfDegE4 ==
    <<0, 87, 174, 261, 349, 436, 524, 611, 699, 787,
      874, 962, 1051, 1139, 1227, 1316, 1405, 1494, 1583, 1673,
      1763, 1853, 1943, 2034, 2125, 2216, 2308, 2400, 2493, 2586,
      2679, 2773, 2867, 2962, 3057, 3152, 3249, 3345, 3443, 3541,
      3639, 3738, 3838, 3939, 4040, 4142, 4244, 4348, 4452, 4557,
      4663, 4769, 4877, 4985, 5095, 5205, 5317, 5429, 5543, 5657,
      5773, 5890, 6008, 6128, 6248, 6370, 6494, 6618, 6745, 6872,
      7002, 7132, 7265, 7399, 7535, 7673, 7812, 7954, 8097, 8243,
      8390, 8540, 8692, 8847, 9004, 9163, 9325, 9489, 9656, 9826,
      9999, 10176, 10355, 10537, 10723, 10913, 11106, 11302, 11503, 11708,
      11917, 12130, 12348, 12571, 12799, 13032, 13270, 13514, 13763, 14019,
      14281, 14550, 14825, 15108, 15398, 15696, 16003, 16318, 16642, 16976,
      17320, 17674, 18040, 18417, 18807, 19209, 19626, 20056, 20503, 20965,
      21445, 21942, 22460, 22998, 23558, 24142, 24750, 25386, 26050, 26746,
      27474, 28239, 29042, 29886, 30776, 31715, 32708, 33759, 34874, 36058,
      37320, 38667, 40107, 41652, 43314, 45107, 47046, 49151, 51445, 53955,
      56712, 59757, 63137, 66911, 71153, 75957, 81443, 87768, 95143, 103853,
      114300, 127062, 143006, 163498, 190811, 229037, 286362, 381884, 572899, 1145886,
      2000000000>>

\* round(10^4 * sin(d degrees)), d = 0..90
SinDegE4 ==
    <<0, 175, 349, 523, 698, 872, 1045, 1219, 1392, 1564,
      1736, 1908, 2079, 2250, 2419, 2588, 2756, 2924, 3090, 3256,
      3420, 3584, 3746, 3907, 4067, 4226, 4384, 4540, 4695, 4848,
      5000, 5150, 5299, 5446, 5592, 5736, 5878, 6018, 6157, 6293,
      6428, 6561, 6691, 6820, 6947, 7071, 7193, 7314, 7431, 7547,
      7660, 7771, 7880, 7986, 8090, 8192, 8290, 8387, 8480, 8572,
      8660, 8746, 8829, 8910, 8988, 9063, 9135, 9205, 9272, 9336,
      9397, 9455, 9511, 9563, 9613, 9659, 9703, 9744, 9781, 9816,
      9848, 9877, 9903, 9925, 9945, 9962, 9976, 9986, 9994, 9998,
      10000>>

\* Largest tangent (scaled) multiplied with a radius: a larger one is cut
\* to it, which only happens to points far outside every circle drawn
TanCap == 40000

Min(a, b) == IF a < b THEN a ELSE b

Abs(n) == IF n < 0 THEN -n ELSE n

\* tan of an angle in quarter degrees, 0..360, scaled by 10^4;
\* tan((90 - 23.5) / 2 degrees) = 0.65562...
tan_q(q) == IF q % 2 = 0 THEN TanHalfDegE4[q \div 2 + 1]
            ELSE (TanHalfDegE4[q \div 2 + 1] + TanHalfDegE4[q \div 2 + 2]) \div 2

\* x * tan(q quarter degrees)
TimesTan(x, q) == (x * Min(tan_q(q), TanCap)) \div 10000

\* sin of a whole number of degrees, scaled by 10^4
sin_deg(d) ==
    LET m == d % 360
    IN IF m <= 90 THEN SinDegE4[m + 1]
       ELSE IF m <= 180 THEN SinDegE4[180 - m + 1]
       ELSE IF m <= 270 THEN -SinDegE4[m - 180 + 1]
       ELSE -SinDegE4[360 - m + 1]

\* asin of a value scaled by 10^4, in hundredths of a degree, by linear
\* interpolation in the sine table
asin_e4(v) ==
    LET a == IF v < 0 THEN -v ELSE v
        d == CHOOSE k \in 0..89 :
                 /\ SinDegE4[k + 1] <= a
                 /\ (a < SinDegE4[k + 2] \/ k = 89)
        part == (100 * (a - SinDegE4[d + 1])) \div (SinDegE4[d + 2] - SinDegE4[d + 1])
    IN IF v < 0 THEN -(d * 100 + part) ELSE d * 100 + part

acos_e4(v) == 9000 - asin_e4(v)

\* Size of tab into which climate slots: 5 * unit_deg
tab_size == 500

----------------------------------------------------------------------------
(* Drawing primitives, as the GraphicsContext receives them.  A point      *)
(* given in the source as (R cos t, -R sin t), (R sin t, -R cos t) or the  *)
(* like is kept as its radius R and its angle t.                            *)

Prim(kind, txt, ra, th, rb, thb, cy, rot, size) ==
    [kind |-> kind, text |-> txt, r |-> ra, theta |-> th, r2 |-> rb,
     theta2 |-> thb, cy |-> cy, rotation |-> rot, size |-> size]

Circle(cy, radius) == Prim("circle", "", radius, 0, 0, 0, cy, 0, 0)

Arc(cy, radius, from, to) == Prim("arc", "", radius, from, radius, to, cy, 0, 0)

\* move_to (ra, th) then line_to (rb, thb)
Line(ra, th, rb, thb) == Prim("line", "", ra, th, rb, thb, 0, 0, 0)

Text(txt, ra, th, rot, size) == Prim("text", txt, ra, th, 0, 0, 0, rot, size)

CircularText(txt, cy, radius, azimuth, size) ==
    Prim("circular_text", txt, radius, azimuth, 0, 0, cy, 0, size)

\* The sequence f(lo), f(lo + step), ... for the values below hi (numpy.arange)
Collect(f(_), lo, hi, step) ==
    [k \in 1..((hi - lo + step - 1) \div step) |-> f(lo + (k - 1) * step)]

RECURSIVE Flatten(_)
Flatten(ss) == IF ss = <<>> THEN <<>> ELSE Head(ss) \o Flatten(Tail(ss))

Range(q) == {q[i] : i \in DOMAIN q}

----------------------------------------------------------------------------
(* bounding_box of each component *)

Box(x_min, x_max, y_min, y_max) ==
    [x_min |-> x_min, x_max |-> x_max, y_min |-> y_min, y_max |-> y_max]

\* mother_front.py 54-61: r_outer = r_1 + 0.5 * unit_cm
MotherFrontBoundingBox ==
    LET r_outer == r_1 + unit_cm \div 2
    IN Box(-r_outer, r_outer, -r_outer - 2 * unit_cm, r_outer)

\* mother_back.py 57-64: r_outer = r_1 + 0.4 * unit_cm
MotherBackBoundingBox ==
    LET r_outer == r_1 + (4 * unit_cm) \div 10
    IN Box(-r_outer, r_outer, -r_outer - 2 * unit_cm, r_outer)

\* rete.py 56-63: r_outer = r_1 - d_12 * 2.7
ReteBoundingBox ==
    LET r_outer == r_1 - (d_12 * 27) \div 10
    IN Box(-r_outer, r_outer, -r_outer, r_outer)

\* rule.py 53-58
RuleBoundingBox ==
    Box(-2 * unit_cm, 4 * unit_cm, -((r_1 * 12) \div 10), (r_1 * 12) \div 10)

ClimateBoundingBox_Shrunk ==
    LET r_outer == r_1 - (d_12 * 5) \div 2 - unit_mm
    IN Box(-r_outer, r_outer, -r_outer, r_outer)

\* climate.py 55-62: r_outer = r_1 - d_12 * 2.5
ClimateBoundingBox ==
    LET r_outer == r_1 - (d_12 * 5) \div 2
    IN Box(-r_outer, r_outer, -r_outer, r_outer)

\* bounding_box of a component that is not a composite
ItemBoundingBox(c) ==
    CASE c = "MotherFront" -> MotherFrontBoundingBox
      [] c = "MotherBack"  -> MotherBackBoundingBox
      [] c = "Rete"        -> ReteBoundingBox
      [] c = "Rule"        -> RuleBoundingBox
      [] c = "Climate"     -> ClimateBoundingBox

\* min(list) and max(list) of a list that is not empty
ListMin(xs) == CHOOSE m \in Range(xs) : \A i \in DOMAIN xs : m <= xs[i]
ListMax(xs) == CHOOSE m \in Range(xs) : \A i \in DOMAIN xs : m >= xs[i]

CompositeBoundingBox_MaxOfFirst(components) ==
    LET bounding_boxes == [i \in DOMAIN components |-> ItemBoundingBox(components[i])]
    IN Box(ListMin([i \in DOMAIN components |-> bounding_boxes[i].x_min]),
           bounding_boxes[1].x_max,
           ListMin([i \in DOMAIN components |-> bounding_boxes[i].y_min]),
           ListMax([i \in DOMAIN components |-> bounding_boxes[i].y_max]))

\* graphics_context.py 780-796: the box of a composite of these components
CompositeBoundingBox(components) ==
    LET bounding_boxes == [i \in DOMAIN components |-> ItemBoundingBox(components[i])]
    IN Box(ListMin([i \in DOMAIN components |-> bounding_boxes[i].x_min]),
           ListMax([i \in DOMAIN components |-> bounding_boxes[i].x_max]),
           ListMin([i \in DOMAIN components |-> bounding_boxes[i].y_min]),
           ListMax([i \in DOMAIN components |-> bounding_boxes[i].y_max]))

bounding_box(c) ==
    IF c = "CompositeComponent"
    THEN CompositeBoundingBox(composite.components)
    ELSE ItemBoundingBox(c)

----------------------------------------------------------------------------
(* The radii each do_rendering defines: r[i] is the source's r_i. *)

MotherBackRadii_SignSlip ==
    LET r_2 == r_1 - d_12
        r_3 == r_2 - d_12 \div 2
        r_4 == r_3 - d_12
        r_5 == r_4 - d_12
        r_6 == r_5 - d_12
        r_7 == r_6 - d_12
        r_8 == r_7 + d_12 \div 2
        r_9 == r_8 - d_12
        r_10 == r_9 - d_12
        r_11 == r_10 - d_12
        r_12 == r_11 - d_12
        r_13 == centre_scaling(d_12)
    IN [r |-> <<r_1, r_2, r_3, r_4, r_5, r_6, r_7, r_8, r_9, r_10, r_11, r_12, r_13>>,
        tab |-> 0]

\* mother_back.py 83-109
MotherBackRadii ==
    LET r_2 == r_1 - d_12
        r_3 == r_2 - d_12 \div 2
        r_4 == r_3 - d_12
        r_5 == r_4 - d_12
        r_6 == r_5 - d_12
        r_7 == r_6 - d_12
        r_8 == r_7 - d_12 \div 2
        r_9 == r_8 - d_12
        r_10 == r_9 - d_12
        r_11 == r_10 - d_12
        r_12 == r_11 - d_12
        r_13 == centre_scaling(d_12)
    IN [r |-> <<r_1, r_2, r_3, r_4, r_5, r_6, r_7, r_8, r_9, r_10, r_11, r_12, r_13>>,
        tab |-> 0]

\* mother_front.py 80-92
MotherFrontRadii ==
    LET r_2 == r_1 - (d_12 * 3) \div 2
        r_3 == r_2 - d_12
        r_4 == r_3 - d_12 \div 2
        r_5 == centre_scaling(d_12)
    IN [r |-> <<r_1, r_2, r_3, r_4, r_5>>, tab |-> 0]

\* (90 - inclination_ecliptic) / 2, in quarter degrees
HalfCoInclination_q == (360 - inclination_ecliptic_q) \div 2

ClimateRadii_TropicFromEdge ==
    LET r_tab == r_1 - (d_12 * 5) \div 2 - unit_mm
        r_2 == r_1 - d_12 * 3 - unit_mm
        r_3 == centre_scaling(d_12)
        r_4 == TimesTan(r_2, HalfCoInclination_q)
        r_5 == TimesTan(r_2, HalfCoInclination_q)
    IN [r |-> <<r_1, r_2, r_3, r_4, r_5>>, tab |-> r_tab]

\* climate.py 85-100
ClimateRadii ==
    LET r_tab == r_1 - (d_12 * 5) \div 2 - unit_mm
        r_2 == r_1 - d_12 * 3 - unit_mm
        r_3 == centre_scaling(d_12)
        r_4 == TimesTan(r_2, HalfCoInclination_q)
        r_5 == TimesTan(r_4, HalfCoInclination_q)
    IN [r |-> <<r_1, r_2, r_3, r_4, r_5>>, tab |-> r_tab]

\* rete.py 85-97
ReteRadii ==
    LET r_2 == r_1 - d_12 * 3 - unit_mm
        r_3 == centre_scaling(d_12)
        r_4 == TimesTan(r_2, HalfCoInclination_q)
        r_5 == TimesTan(r_4, HalfCoInclination_q)
    IN [r |-> <<r_1, r_2, r_3, r_4, r_5>>, tab |-> 0]

----------------------------------------------------------------------------
(* themes.py, text.py, settings.py *)

themes == {"default"}

Languages == <<"en", "fr", "sv", "de">>

ThemeChoices == {"default", "dark"}

FormatChoices == <<"pdf", "png", "svg">>

Components == {"MotherFront", "MotherBack", "Rete", "Rule", "Climate"}

HasKey(s, k) == k \in DOMAIN s

----------------------------------------------------------------------------
(* astrolabe.py: the batch driver *)

\* list(range(-80, 90, 5)) + [52]
BatchLatitudes == [i \in 1..35 |-> IF i = 35 THEN 52 ELSE -80 + 5 * (i - 1)]

\* if -10 < latitude < 10: continue
Skipped(latitude) == -10 < latitude /\ latitude < 10

\* astrolabe.py 77-109: the parts in the order they are rendered
BatchParts ==
    <<"MotherFront", "MotherBack", "Rete", "Rule", "Climate", "CompositeComponent">>

\* astrolabe.py 100: the combined part is rendered in all formats once for
\* each of the supported formats; every other part once
RenderPasses(part) == IF part = "CompositeComponent" THEN Len(FormatChoices) ELSE 1

BatchSettings(language, latitude, theme) ==
    [language |-> language, latitude |-> latitude, theme |-> theme]

\* a module's own script entry
ScriptSettings(latitude) == [latitude |-> latitude, language |-> "en"]

----------------------------------------------------------------------------
(* mother_front.py: MotherFront.do_rendering *)

is_southern(s) == s.latitude < 0

\* mother_front.py 94-114: the handle, circles 1, 2, 3 and 5, and circle 4
\* with the tab cut out
MotherFrontFrame ==
    LET R == MotherFrontRadii.r
        ang == 18000 - acos_e4((unit_cm * 10000) \div r_1)
    IN << Arc(-r_1, 2 * unit_cm, -ang - 9000, ang - 9000),
          Line(R[3], 0, r_1 + 2 * unit_cm, 0),
          Circle(0, R[1]), Circle(0, R[2]), Circle(0, R[3]), Circle(0, R[5]),
          Arc(0, R[4], tab_size - 9000, 36000 - tab_size - 9000) >>

\* mother_front.py 116-122: arange(5 deg, 359.9 deg, 5 deg)
MotherFrontTicks5 ==
    LET R == MotherFrontRadii.r
    IN Collect(LAMBDA theta : Line(R[2], theta, R[4], theta), 500, 35990, 500)

\* mother_front.py 124-129: arange(tab_size, 360.1 deg - tab_size, 1 deg)
MotherFrontTicks1 ==
    LET R == MotherFrontRadii.r
    IN Collect(LAMBDA theta : Line(R[3], theta, R[4], theta),
               tab_size, 36010 - tab_size, 100)

\* mother_front.py 134-147: the angle shown at theta (whole degrees)
ThetaDisp(theta) ==
    IF theta < -17900 THEN theta \div 100
    ELSE IF theta < -9000 THEN (theta + 18000) \div 100
    ELSE IF theta < 0 THEN (-theta) \div 100
    ELSE IF theta < 9000 THEN theta \div 100
    ELSE (-theta + 18000) \div 100

\* "{:.0f}".format(n) for the one-digit numbers that occur
Digit(n) == CASE n = 0 -> "0" [] n = 1 -> "1" [] n = 2 -> "2" [] n = 3 -> "3"
              [] n = 4 -> "4" [] n = 5 -> "5" [] n = 6 -> "6" [] n = 7 -> "7"
              [] n = 8 -> "8" [] n = 9 -> "9"

\* mother_front.py 149-175: the label or the pair of digits at theta
MotherFrontLabel(theta) ==
    LET R == MotherFrontRadii.r
        rt_1 == (R[2] + R[3]) \div 2
        theta_disp == ThetaDisp(theta)
    IN IF theta_disp = 0
       THEN << Text("0", rt_1, theta, -theta - 9000, 120) >>
       ELSE IF theta_disp = -180
       THEN << Text("cross", rt_1, theta, -theta - 9000, 210) >>
       ELSE << Text(Digit(theta_disp \div 10), rt_1, theta - 20, -theta - 9000, 120),
               Text(Digit(theta_disp % 10), rt_1, theta + 20, -theta - 9000, 120) >>

\* mother_front.py 133: arange(-180 deg, 179 deg, 10 deg)
MotherFrontLabels ==
    Flatten(Collect(LAMBDA theta : MotherFrontLabel(theta), -18000, 17900, 1000))

HourLetters_WithJ ==
    << "cross", "A", "B", "C", "D", "E", "F", "G", "H", "I", "J", "K", "L", "M",
       "N", "O", "P", "Q", "R", "S", "T", "U", "X", "Y" >>

\* mother_front.py 179-180
HourLetters ==
    << "cross", "A", "B", "C", "D", "E", "F", "G", "H", "I", "K", "L", "M", "N",
       "O", "P", "Q", "R", "S", "T", "U", "X", "Y", "Z" >>

\* unit_rev, in hundredths of a degree
unit_rev == 36000

\* Radius of the hour letters: r_1 * 0.55 + r_2 * 0.45
HourRadius == (MotherFrontRadii.r[1] * 55 + MotherFrontRadii.r[2] * 45) \div 100

MotherFrontHour_NotMirrored(s, i) ==
    LET theta == (i * unit_rev) \div 24
    IN Text(HourLetters[i + 1], HourRadius, theta, theta, IF i > 0 THEN 200 ELSE 280)

\* mother_front.py 181-192: the i-th hour glyph, i = 0..23
MotherFrontHour(s, i) ==
    LET theta0 == (i * unit_rev) \div 24
        theta == IF is_southern(s) THEN -theta0 ELSE theta0
    IN Text(HourLetters[i + 1], HourRadius, theta, theta, IF i > 0 THEN 200 ELSE 280)

\* Everything MotherFront.do_rendering draws for settings s, in order
MotherFrontOutput(s) ==
    MotherFrontFrame \o MotherFrontTicks5 \o MotherFrontTicks1 \o MotherFrontLabels
    \o [k \in 1..Len(HourLetters) |-> MotherFrontHour(s, k - 1)]

----------------------------------------------------------------------------
(* rete.py: Rete.do_rendering *)

\* a / b rounded towards zero: the same magnitude for a and -a, as in the
\* source's floating-point arithmetic
Quot(a, b) == IF a < 0 THEN -((-a) \div b) ELSE a \div b

\* rete.py 110-113
y_ecl_centre == (ReteRadii.r[2] - ReteRadii.r[5]) \div 2
r_ecl_outer == (ReteRadii.r[2] + ReteRadii.r[5]) \div 2
r_ecl_inner == (r_ecl_outer * 9) \div 10
r_ecl_centre == (r_ecl_outer + r_ecl_inner * 2) \div 3

\* rete.py 99-119: outer edge, central hole, ecliptic band
ReteFrame ==
    << Circle(0, ReteRadii.r[2]), Circle(0, ReteRadii.r[3]),
       Circle(y_ecl_centre, r_ecl_outer), Circle(y_ecl_centre, r_ecl_inner) >>

\* rete.py 126-130: psi for theta in whole degrees, in hundredths of a degree
EclipticPsi(theta) ==
    theta * 100 + asin_e4(Quot(y_ecl_centre * sin_deg(theta), r_ecl_outer))

\* rete.py 132-146: the tick at theta (whole degrees)
EclipticTick(theta) ==
    LET psi == EclipticPsi(theta)
        r_tick_inner == IF theta % 30 = 0 THEN r_ecl_inner
                        ELSE IF theta % 10 = 0 THEN (r_ecl_outer + r_ecl_inner) \div 2
                        ELSE (3 * r_ecl_outer + r_ecl_inner) \div 4
    IN Prim("tick", "", r_ecl_outer, psi, r_tick_inner, psi, y_ecl_centre, 0, 0)

\* rete.py 125: arange(0 deg, 359 deg, 2 deg)
EclipticTicks == Collect(LAMBDA theta : EclipticTick(theta), 0, 359, 2)

\* text.py 40-53
ZodiacNames ==
    << "Aries", "Taurus", "Gemini", "Cancer", "Leo", "Virgo", "Libra", "Scorpio",
       "Sagittarius", "Capricornus", "Aquarius", "Pisces" >>

\* name[:8]
First8(name) ==
    CASE name = "Sagittarius" -> "Sagittar"
      [] name = "Capricornus" -> "Capricor"
      [] OTHER -> name

\* rete.py 156-172: the i-th zodiac label, i = 1..12
ZodiacLabel(s, i) ==
    LET theta == IF is_southern(s) THEN -90 - 15 + 30 * i ELSE -90 + 15 - 30 * i
        name == IF is_southern(s) THEN First8(ZodiacNames[i]) ELSE ZodiacNames[i]
        alpha == asin_e4(Quot(y_ecl_centre * sin_deg(theta), r_ecl_outer))
        psi == -9000 - (theta * 100 + alpha)
    IN CircularText(name, y_ecl_centre, (r_ecl_centre * 102) \div 100, psi,
                    IF is_southern(s) THEN 70 ELSE 100)

ZodiacLabels(s) == [i \in 1..Len(ZodiacNames) |-> ZodiacLabel(s, i)]

\* rete.py 174-193: the clipping region, the equator, the tropic of Cancer
ReteClip ==
    << Prim("clip", "", ReteRadii.r[2], 0, ReteRadii.r[3], 0, y_ecl_centre, 0, 0),
       Circle(0, ReteRadii.r[4]), Circle(0, ReteRadii.r[5]) >>

\* rete.py 214-215, 245-246: r_4 * tan((90 - dec) * unit_deg / 2), dec in
\* whole degrees
ProjectedRadius(dec) == TimesTan(ReteRadii.r[4], 2 * (90 - dec))

StickDrawn_FirstEndOnly(s, row) ==
    LET dec1 == IF is_southern(s) THEN -row.dec1 ELSE row.dec1
    IN ~(ProjectedRadius(dec1) > ReteRadii.r[2])

\* rete.py 206-222: is the segment of this row drawn
StickDrawn(s, row) ==
    LET dec1 == IF is_southern(s) THEN -row.dec1 ELSE row.dec1
        dec2 == IF is_southern(s) THEN -row.dec2 ELSE row.dec2
    IN /\ ~(ProjectedRadius(dec1) > ReteRadii.r[2])
       /\ ~(ProjectedRadius(dec2) > ReteRadii.r[2])

\* rete.py 206-228: the segment of this row; angles in hundredths of a degree
StickSegment(s, row) ==
    LET dec1 == IF is_southern(s) THEN -row.dec1 ELSE row.dec1
        ra1 == IF is_southern(s) THEN -row.ra1 ELSE row.ra1
        dec2 == IF is_southern(s) THEN -row.dec2 ELSE row.dec2
        ra2 == IF is_southern(s) THEN -row.ra2 ELSE row.ra2
    IN Prim("stick", "", ProjectedRadius(dec1), ra1 * 100,
            ProjectedRadius(dec2), ra2 * 100, 0, 0, 0)

StarDrawn_Strict(s, star) ==
    LET dec == IF is_southern(s) THEN -star.dec ELSE star.dec
    IN /\ star.mag < 400
       /\ ~(ProjectedRadius(dec) > ReteRadii.r[2])

\* rete.py 234-250: is a marker drawn for this star
StarDrawn(s, star) ==
    LET dec == IF is_southern(s) THEN -star.dec ELSE star.dec
    IN /\ ~(star.mag > 400)
       /\ ~(ProjectedRadius(dec) > ReteRadii.r[2])

StarMarker_RaKept(s, star) ==
    LET dec == IF is_southern(s) THEN -star.dec ELSE star.dec
    IN Prim("star", "", ProjectedRadius(dec), star.ra * 100, 0, 0, 0, 0,
            (180 * (500 - star.mag)) \div 100)

\* rete.py 238-256: the marker of this star; radius 0.18 * unit_mm * (5 - mag)
StarMarker(s, star) ==
    LET dec == IF is_southern(s) THEN -star.dec ELSE star.dec
        ra == IF is_southern(s) THEN -star.ra ELSE star.ra
    IN Prim("star", "", ProjectedRadius(dec), ra * 100, 0, 0, 0, 0,
            (180 * (500 - star.mag)) \div 100)

\* rete.py 259-271: the hour tick and its label, ra = 0..23
RaHour(s, ra) ==
    LET theta == (ra * unit_rev) \div 24
        r_2 == ReteRadii.r[2]
        r_tick == (r_2 * 98) \div 100
    IN << Line(r_2, 18000 - theta, r_tick, 18000 - theta),
          Text(ToString(IF is_southern(s) THEN 24 - ra ELSE ra), r_tick, theta,
               -9000 - theta, 100) >>

\* rete.py 273-280: arange(0, 23.9, 1 / 6), k = 6 * ra
RaMinorTick(k) ==
    LET theta == (k * unit_rev) \div 144
        r_2 == ReteRadii.r[2]
    IN Line(r_2, -theta, (r_2 * 99) \div 100, -theta)

RaScale(s) ==
    Flatten([ra \in 1..24 |-> RaHour(s, ra - 1)]) \o [k \in 1..144 |-> RaMinorTick(k - 1)]

\* rete.py 196-228: the segments drawn for the rows of the table, in order
StickSegments(s, rows) ==
    LET kept == SelectSeq(rows, LAMBDA row : StickDrawn(s, row))
    IN [k \in 1..Len(kept) |-> StickSegment(s, kept[k])]

\* rete.py 231-256: the markers drawn for the stars of the catalogue, in order
StarMarkers(s, rows) ==
    LET kept == SelectSeq(rows, LAMBDA star : StarDrawn(s, star))
    IN [k \in 1..Len(kept) |-> StarMarker(s, kept[k])]

\* Everything Rete.do_rendering draws for settings s and these tables
ReteOutput(s, stickRows, starRows) ==
    ReteFrame \o EclipticTicks \o ZodiacLabels(s) \o ReteClip
    \o StickSegments(s, stickRows)
    \o StarMarkers(s, starRows)
    \o RaScale(s)

----------------------------------------------------------------------------
(* The settings keys each do_rendering reads, in the order it first reads   *)
(* them.                                                                    *)

SettingsReads(c) ==
    CASE c = "MotherFront" -> <<"latitude", "theme">>
      [] c = "MotherBack"  -> <<"language", "theme", "astrolabe_type">>
      [] c = "Rete"        -> <<"latitude", "language", "theme">>
      [] c = "Rule"        -> <<"latitude", "theme", "astrolabe_type">>
      [] c = "Climate"     -> <<"latitude", "language", "theme", "astrolabe_type">>
      [] c = "CompositeComponent" ->
             <<"latitude", "theme", "language", "astrolabe_type">>

\* A read settings[k] raises KeyError when k is missing; themes[...] and
\* text[...] raise KeyError when the value is no key of the table.
ReadRaises(s, k) ==
    \/ ~HasKey(s, k)
    \/ k = "theme" /\ s.theme \notin themes
    \/ k = "language" /\ s.language \notin {Languages[i] : i \in DOMAIN Languages}

\* mother_front.py 76, mother_back.py 79, rete.py 79, climate.py 79:
\* themes[settings['theme']] is the first lookup of do_rendering
ThemeRaises(s) == s.theme \notin themes

\* mother_back.py 227, rete.py 156, climate.py 215: text[language] is first
\* looked up where the first translated string is drawn
TextRaises(s) == s.language \notin {Languages[i] : i \in DOMAIN Languages}

RenderingRaises(c, s) ==
    \E i \in DOMAIN SettingsReads(c) : ReadRaises(s, SettingsReads(c)[i])

----------------------------------------------------------------------------
(* Entry points: the batch driver and each module's script entry.          *)

\* Latitudes given on the command line of a script (--latitude is any int)
ArgLatitudes == {-52, -10, -9, -5, 0, 5, 9, 10, 52}

NoSettings == [unset |-> TRUE]

NoBatch == [lang |-> 0, lat |-> 0, part |-> 0, pass |-> 0, fmt |-> 0]

NoPage == [format |-> "none", surface |-> "none", finalized |-> FALSE]

NoResult == [returned |-> FALSE]

NoComposite == [components |-> << >>, item |-> 0, starts |-> << >>]

RenderIdle ==
    /\ bbox = <<>>
    /\ radii = <<>>
    /\ drawn = <<>>
    /\ stars = <<>>
    /\ sticks = <<>>
    /\ tuckerman = <<>>
    /\ saints = <<>>
    /\ cursor = 0
    /\ x_1974 = <<>>
    /\ y_1974 = <<>>
    /\ x_1394 = <<>>
    /\ y_1394 = <<>>

InitMain ==
    /\ entry \in {"batch", "script"}
    /\ arguments \in [latitude : ArgLatitudes,
                      img_format : {FormatChoices[i] : i \in DOMAIN FormatChoices},
                      theme : ThemeChoices]
    /\ component \in IF entry = "script" THEN Components ELSE {"none"}
    /\ settings = NoSettings
    /\ pc = "main"
    /\ raised = "none"
    /\ batch = NoBatch
    /\ written = << >>
    /\ page = NoPage
    /\ result = NoResult
    /\ composite = NoComposite
    /\ RenderIdle

\* climate.py 360-371 (and the same lines of the other four modules)
ScriptMain ==
    /\ pc = "main"
    /\ entry = "script"
    /\ settings' = ScriptSettings(arguments.latitude)
    /\ pc' = "construct"
    /\ UNCHANGED <<entry, arguments, component, raised, batch, written, page, result, composite>>
    /\ UNCHANGED renderVars

\* The (language, latitude) combinations after position (l, a) of the two
\* nested loops that the latitude test does not skip, as l * 100 + a.
CombinationsAfter(l, a) ==
    {li * 100 + ai : li \in DOMAIN Languages, ai \in DOMAIN BatchLatitudes} \cap
    {n \in 0..(100 * Len(Languages) + 99) :
        /\ n > l * 100 + a
        /\ (n % 100) \in DOMAIN BatchLatitudes
        /\ ~Skipped(BatchLatitudes[n % 100])}

SetMin(S) == CHOOSE x \in S : \A y \in S : x <= y

\* astrolabe.py 48-75: the loop heads, the latitude test and the settings
BatchNextCombination ==
    /\ entry = "batch"
    /\ pc \in {"main", "combination_done"}
    /\ LET rest == CombinationsAfter(batch.lang, batch.lat)
       IN IF rest = {}
          THEN /\ pc' = "exit"
               /\ UNCHANGED <<batch, settings, component>>
          ELSE LET n == SetMin(rest)
               IN /\ batch' = [lang |-> n \div 100, lat |-> n % 100,
                               part |-> 1, pass |-> 1, fmt |-> 1]
                  /\ settings' = BatchSettings(Languages[n \div 100],
                                               BatchLatitudes[n % 100],
                                               arguments.theme)
                  /\ component' = BatchParts[1]
                  /\ pc' = "construct"
    /\ UNCHANGED <<entry, arguments, raised, written, page, result, composite>>
    /\ UNCHANGED renderVars

\* astrolabe.py 101-106: the components of the combined part
CombinedParts == <<"MotherFront", "Climate">>

\* graphics_context.py 640-650, 773-775: BaseComponent.__init__ stores the
\* settings, CompositeComponent.__init__ the list of components as well
Construct ==
    /\ pc = "construct"
    /\ composite' = IF component = "CompositeComponent"
                    THEN [NoComposite EXCEPT !.components = CombinedParts]
                    ELSE NoComposite
    /\ pc' = "render_to_file"
    /\ UNCHANGED <<entry, arguments, component, settings, raised, batch, written, page, result>>
    /\ UNCHANGED renderVars

ImgFormat == IF entry = "batch" THEN FormatChoices[batch.fmt] ELSE arguments.img_format

Surface_ImageByDefault(img_format) ==
    CASE img_format = "pdf" -> "PDFSurface"
      [] img_format = "svg" -> "SVGSurface"
      [] OTHER -> "ImageSurface"

\* graphics_context.py 71-79: the surface GraphicsPage.__init__ creates;
\* "none" is the None left in self.surface when the assert fails
Surface(img_format) ==
    CASE img_format = "pdf" -> "PDFSurface"
      [] img_format = "png" -> "ImageSurface"
      [] img_format = "svg" -> "SVGSurface"
      [] OTHER -> "none"

\* graphics_context.py 61-79: GraphicsPage.__init__
GraphicsPage(img_format) ==
    [format |-> img_format, surface |-> Surface(img_format), finalized |-> FALSE]

\* graphics_context.py 691-703 and 61-79: the bounding box is looked up and
\* the page is constructed; an unknown format fails the assert of __init__
\* before the with block is entered, and min([]) raises ValueError for a
\* composite of no components
RenderToFile ==
    /\ pc = "render_to_file"
    /\ IF component = "CompositeComponent" /\ composite.components = << >>
       THEN /\ raised' = "ValueError"
            /\ pc' = "uncaught"
            /\ UNCHANGED <<bbox, page>>
       ELSE /\ bbox' = bounding_box(component)
            /\ page' = GraphicsPage(ImgFormat)
            /\ IF Surface(ImgFormat) = "none"
               THEN /\ raised' = "AssertionError"
                    /\ pc' = "uncaught"
               ELSE /\ pc' = "do_rendering"
                    /\ UNCHANGED raised
    /\ UNCHANGED <<entry, arguments, component, settings, batch, written, result, composite>>
    /\ UNCHANGED drawVars

\* graphics_context.py 670-672: do_rendering runs with the stored settings
DoRendering ==
    /\ pc = "do_rendering"
    /\ raised' = IF RenderingRaises(component, settings) THEN "KeyError" ELSE "none"
    /\ pc' = "page_exit"
    /\ UNCHANGED <<entry, arguments, component, settings, batch, written, page, result, composite>>
    /\ UNCHANGED renderVars

OutputFile == [component |-> component, format |-> ImgFormat,
               latitude |-> settings.latitude, language |-> settings.language]

FilesAfterDel_Unguarded(pg, files) == Append(files, OutputFile)

\* graphics_context.py 81-106: __del__ returns at once when there is no
\* surface; else the file is written and the surface is dropped
FilesAfterDel(pg, files) ==
    IF pg.surface = "none" THEN files ELSE Append(files, OutputFile)

\* graphics_context.py 81-112: __exit__ calls __del__, which writes the file;
\* an exception raised by the body then propagates
PageExit ==
    /\ pc = "page_exit"
    /\ written' = FilesAfterDel(page, written)
    /\ page' = [page EXCEPT !.surface = "none"]
    /\ pc' = IF raised = "none" THEN "returned" ELSE "uncaught"
    /\ UNCHANGED <<entry, arguments, component, settings, raised, batch, result, composite>>
    /\ UNCHANGED renderVars

\* graphics_context.py 81-106: __del__ as the finalizer of a page that is no
\* longer referenced, after render_to_file returned or raised
PageFinalize ==
    /\ entry = "call"
    /\ pc \in {"exit", "uncaught"}
    /\ ~page.finalized
    /\ written' = FilesAfterDel(page, written)
    /\ page' = [page EXCEPT !.surface = "none", !.finalized = TRUE]
    /\ UNCHANGED <<entry, arguments, component, settings, pc, raised, batch, result, composite>>
    /\ UNCHANGED renderVars

\* astrolabe.py 77-137 and graphics_context.py 723-728: the next format of
\* render_all_formats, the next pass over the combined part, the next part,
\* or the end of this combination; a script ends
Return ==
    /\ pc = "returned"
    /\ IF entry # "batch"
       THEN /\ pc' = "exit"
            /\ UNCHANGED <<batch, component>>
       ELSE IF batch.fmt < Len(FormatChoices)
       THEN /\ batch' = [batch EXCEPT !.fmt = @ + 1]
            /\ pc' = "render_to_file"
            /\ UNCHANGED component
       ELSE IF batch.pass < RenderPasses(component)
       THEN /\ batch' = [batch EXCEPT !.pass = @ + 1, !.fmt = 1]
            /\ pc' = "construct"
            /\ UNCHANGED component
       ELSE IF batch.part < Len(BatchParts)
       THEN /\ batch' = [batch EXCEPT !.part = @ + 1, !.pass = 1, !.fmt = 1]
            /\ component' = BatchParts[batch.part + 1]
            /\ pc' = "construct"
       ELSE /\ pc' = "combination_done"
            /\ UNCHANGED <<batch, component>>
    /\ UNCHANGED <<entry, arguments, settings, raised, written, page, result, composite>>
    /\ UNCHANGED renderVars

NextMain ==
    \/ ScriptMain
    \/ BatchNextCombination
    \/ Construct
    \/ RenderToFile
    \/ DoRendering
    \/ PageExit
    \/ Return

Spec == InitMain /\ [][NextMain]_vars

----------------------------------------------------------------------------
(* A component rendered by a direct call of render_to_file, with settings  *)
(* that hold every key.                                                     *)

RenderLatitudes == {-80, -52, -10, 10, 52, 85}

RenderSettings ==
    [latitude : RenderLatitudes, language : {"en"}, theme : {"default"},
     astrolabe_type : {"full", "simple"}]

NoArguments == [latitude |-> 52, img_format |-> "png", theme |-> "default"]

InitCall(c, S) ==
    /\ entry = "call"
    /\ arguments = NoArguments
    /\ component = c
    /\ settings \in S
    /\ pc = "render_to_file"
    /\ raised = "none"
    /\ batch = NoBatch
    /\ written = << >>
    /\ page = NoPage
    /\ result = NoResult
    /\ composite = NoComposite
    /\ bbox = <<>>
    /\ radii = <<>>
    /\ drawn = <<>>
    /\ cursor = 0
    /\ x_1974 = <<>>
    /\ y_1974 = <<>>
    /\ x_1394 = <<>>
    /\ y_1394 = <<>>

ctlVars == <<entry, arguments, component, settings, raised, batch, written, page, result, composite, bbox>>

inputVars == <<stars, sticks, tuckerman, saints>>

tableVars == <<x_1974, y_1974, x_1394, y_1394>>

Rendering(c, at) == entry = "call" /\ component = c /\ pc = at

\* mother_front.py 75-114
MotherFrontStart ==
    /\ Rendering("MotherFront", "do_rendering")
    /\ IF ThemeRaises(settings)
       THEN /\ raised' = "KeyError"
            /\ pc' = "page_exit"
            /\ UNCHANGED <<radii, drawn>>
       ELSE /\ radii' = MotherFrontRadii
            /\ drawn' = drawn \o MotherFrontFrame
            /\ pc' = "ticks"
            /\ UNCHANGED raised
    /\ UNCHANGED <<entry, arguments, component, settings, batch, written, page, result, composite, bbox>>
    /\ UNCHANGED <<inputVars, tableVars, cursor>>

\* mother_front.py 116-129
MotherFrontTicks ==
    /\ Rendering("MotherFront", "ticks")
    /\ drawn' = drawn \o MotherFrontTicks5 \o MotherFrontTicks1
    /\ pc' = "labels"
    /\ UNCHANGED <<ctlVars, inputVars, tableVars, cursor, radii>>

\* mother_front.py 131-175
MotherFrontDegrees ==
    /\ Rendering("MotherFront", "labels")
    /\ drawn' = drawn \o MotherFrontLabels
    /\ cursor' = 0
    /\ pc' = "hours"
    /\ UNCHANGED <<ctlVars, inputVars, tableVars, radii>>

\* mother_front.py 177-192: one pass of the loop over the hour glyphs
MotherFrontHours ==
    /\ Rendering("MotherFront", "hours")
    /\ IF cursor < Len(HourLetters)
       THEN /\ drawn' = Append(drawn, MotherFrontHour(settings, cursor))
            /\ cursor' = cursor + 1
            /\ pc' = pc
       ELSE /\ pc' = "done"
            /\ UNCHANGED <<drawn, cursor>>
    /\ UNCHANGED <<ctlVars, inputVars, tableVars, radii>>

InitMotherFront ==
    /\ InitCall("MotherFront", RenderSettings)
    /\ stars = <<>>
    /\ sticks = <<>>
    /\ tuckerman = <<>>
    /\ saints = <<>>

NextMotherFront ==
    \/ RenderToFile
    \/ MotherFrontStart
    \/ MotherFrontTicks
    \/ MotherFrontDegrees
    \/ MotherFrontHours

SpecMotherFront == InitMotherFront /\ [][NextMotherFront]_vars

----------------------------------------------------------------------------
(* Rete rendered on small catalogues *)

Star(ra, dec, mag) == [ra |-> ra, dec |-> dec, mag |-> mag]

\* Star descriptors (ra and dec in degrees, mag in hundredths): Sirius,
\* Polaris, a southern star of magnitude exactly 4.00, one of magnitude 4.01,
\* and one just south of the northern rete's edge
StarPool ==
    { Star(101, -17, -146), Star(38, 89, 202), Star(220, -60, 400),
      Star(10, 0, 401), Star(50, -24, 300) }

Stick(ra1, dec1, ra2, dec2) == [ra1 |-> ra1, dec1 |-> dec1, ra2 |-> ra2, dec2 |-> dec2]

\* Stick-figure rows: inside in both hemispheres; near the north pole; and
\* one row with each endpoint beyond the northern rete's edge
StickPool ==
    { Stick(101, -17, 95, -18), Stick(38, 89, 263, 86),
      Stick(100, -20, 110, -30), Stick(200, -30, 210, -20) }

NStars == 2
NSticks == 1

ReteSettings == {s \in RenderSettings : s.latitude \in {-52, 52} /\ s.astrolabe_type = "full"}

InitRete ==
    /\ InitCall("Rete", ReteSettings)
    /\ stars \in [1..NStars -> StarPool]
    /\ sticks \in [1..NSticks -> StickPool]
    /\ tuckerman = <<>>
    /\ saints = <<>>

\* rete.py 77-193
ReteStart ==
    /\ Rendering("Rete", "do_rendering")
    /\ IF ThemeRaises(settings)
       THEN /\ raised' = "KeyError"
            /\ pc' = "page_exit"
            /\ UNCHANGED <<radii, drawn, cursor>>
       ELSE IF TextRaises(settings)
       THEN /\ radii' = ReteRadii
            /\ drawn' = drawn \o ReteFrame \o EclipticTicks
            /\ raised' = "KeyError"
            /\ pc' = "page_exit"
            /\ UNCHANGED cursor
       ELSE /\ radii' = ReteRadii
            /\ drawn' = drawn \o ReteFrame \o EclipticTicks \o ZodiacLabels(settings)
                         \o ReteClip
            /\ cursor' = 1
            /\ pc' = "sticks"
            /\ UNCHANGED raised
    /\ UNCHANGED <<entry, arguments, component, settings, batch, written, page, result, composite, bbox>>
    /\ UNCHANGED <<inputVars, tableVars>>

\* rete.py 205: [name, ra1, dec1, ra2, dec2] = line.split() needs five words
\* (a row of the model leaves the name out)
StickUnpacks(row) == DOMAIN row = {"ra1", "dec1", "ra2", "dec2"}

\* rete.py 195-228: one row of the stick-figure table; a row that does not
\* unpack raises ValueError out of do_rendering
ReteStick ==
    /\ Rendering("Rete", "sticks")
    /\ IF cursor <= Len(sticks)
       THEN IF StickUnpacks(sticks[cursor])
            THEN /\ drawn' = IF StickDrawn(settings, sticks[cursor])
                             THEN Append(drawn, StickSegment(settings, sticks[cursor]))
                             ELSE drawn
                 /\ cursor' = cursor + 1
                 /\ UNCHANGED <<pc, raised>>
            ELSE /\ raised' = "ValueError"
                 /\ pc' = "page_exit"
                 /\ UNCHANGED <<drawn, cursor>>
       ELSE /\ cursor' = 1
            /\ pc' = "stars"
            /\ UNCHANGED <<drawn, raised>>
    /\ UNCHANGED <<entry, arguments, component, settings, batch, written, page, result, composite, bbox>>
    /\ UNCHANGED <<inputVars, tableVars, radii>>

\* rete.py 230-256: one star of the catalogue
ReteStar ==
    /\ Rendering("Rete", "stars")
    /\ IF cursor <= Len(stars)
       THEN /\ drawn' = IF StarDrawn(settings, stars[cursor])
                        THEN Append(drawn, StarMarker(settings, stars[cursor]))
                        ELSE drawn
            /\ cursor' = cursor + 1
            /\ pc' = pc
       ELSE /\ cursor' = 0
            /\ pc' = "ra_scale"
            /\ UNCHANGED drawn
    /\ UNCHANGED <<ctlVars, inputVars, tableVars, radii>>

\* rete.py 258-280
ReteRaScale ==
    /\ Rendering("Rete", "ra_scale")
    /\ drawn' = drawn \o RaScale(settings)
    /\ pc' = "done"
    /\ UNCHANGED <<ctlVars, inputVars, tableVars, radii, cursor>>

NextRete ==
    \/ RenderToFile
    \/ ReteStart
    \/ ReteStick
    \/ ReteStar
    \/ ReteRaScale

SpecRete == InitRete /\ [][NextRete]_vars

----------------------------------------------------------------------------
(* climate.py: Climate.do_rendering.  The arcs of constant azimuth are     *)
(* kept as their bearing and their two compass labels; their centres and   *)
(* radii are not computed.                                                  *)

cos_deg(d) == sin_deg(d + 90)

Clamp(v) == IF v > 10000 THEN 10000 ELSE IF v < -10000 THEN -10000 ELSE v

\* climate.py 101-128: the clipping region, the equator, the tropic of
\* Cancer, and the tab
ClimateFrame ==
    LET R == ClimateRadii.r
        r_tab == ClimateRadii.tab
    IN << Prim("clip", "", R[2], 0, R[3], 0, 0, 0, 0),
          Circle(0, R[4]), Circle(0, R[5]),
          Arc(0, r_tab, -tab_size - 9000, tab_size - 9000),
          Line(r_tab, tab_size, R[2], tab_size),
          Line(r_tab, -tab_size, R[2], -tab_size) >>

\* climate.py 134
Altitudes == <<-6, 0, 5, 10, 15, 20, 25, 30, 35, 40, 45, 50, 55, 60, 65, 70, 75, 80, 85>>

\* climate.py 135-144: where the circle of this altitude cuts the meridian
AltitudeSpan(latitude, altitude) ==
    LET r_4 == ClimateRadii.r[4]
        theta1 == -latitude - (90 - altitude)
        theta2 == -latitude + (90 - altitude)
        x1 == (r_4 * sin_deg(theta1)) \div 10000
        y1 == (r_4 * cos_deg(theta1)) \div 10000
        x2 == (r_4 * sin_deg(theta2)) \div 10000
        y2 == (r_4 * cos_deg(theta2)) \div 10000
    IN [y_a |-> (y1 * r_4) \div (r_4 - x1), y_b |-> (y2 * r_4) \div (r_4 - x2)]

\* climate.py 146-149: the centre and radius of the arc denoting the
\* horizon, recorded with the radii when the altitude is 0
Horizon(R, latitude, altitude) ==
    IF altitude = 0
    THEN [r |-> R.r, tab |-> R.tab,
          horizon_centre |-> (AltitudeSpan(latitude, 0).y_a
                                + AltitudeSpan(latitude, 0).y_b) \div 2,
          horizon_radius |-> (AltitudeSpan(latitude, 0).y_b
                                - AltitudeSpan(latitude, 0).y_a) \div 2]
    ELSE R

\* climate.py 159-162: where a circle of radius r centred y below the
\* middle leaves the climate (lengths taken in millimetres)
AltitudeStart(r, y) ==
    LET rm == r \div unit_mm
        ym == y \div unit_mm
        r2m == ClimateRadii.r[2] \div unit_mm
    IN 18000 - acos_e4(Clamp((10000 * (rm * rm + ym * ym - r2m * r2m)) \div (2 * rm * ym)))

\* climate.py 154-177: the labels of this altitude
AltitudeLabels(latitude, altitude) ==
    LET r_2 == ClimateRadii.r[2]
        y_a == AltitudeSpan(latitude, altitude).y_a
        y_b == AltitudeSpan(latitude, altitude).y_b
        r == (y_b - y_a) \div 2
        y == (y_a + y_b) \div 2
    IN IF y_b < r_2
       THEN IF altitude % 10 = 0
            THEN << Prim("text", ToString(altitude), 0, 0, 0, 0, -y_b, 0, 80) >>
            ELSE << >>
       ELSE IF altitude > 0 /\ altitude % 10 = 0
            THEN LET start == AltitudeStart(r, y)
                     end == -start
                 IN << Prim("text", ToString(altitude), r, start + (r_2 * 200) \div r, 0, 0, -y,
                            18000 + start + (r_2 * 300) \div r, 80),
                       Prim("text", ToString(altitude), r, end - (r_2 * 200) \div r, 0, 0, -y,
                            18000 + end - (r_2 * 300) \div r, 80) >>
            ELSE << >>

\* climate.py 179-183: the circle of this altitude
AltitudeCircle(latitude, altitude) ==
    LET y_a == AltitudeSpan(latitude, altitude).y_a
        y_b == AltitudeSpan(latitude, altitude).y_b
    IN Circle(-((y_a + y_b) \div 2), (y_b - y_a) \div 2)

\* text.py 58-59
directions ==
    << "N", "NNW", "NW", "WNW", "W", "WSW", "SW", "SSW",
       "S", "SSE", "SE", "ESE", "E", "ENE", "NE", "NNE" >>

\* climate.py 213-223: the compass labels at the two ends of the arc
direction_start(s, azimuth_step) ==
    LET a == IF azimuth_step % 2 # 0 THEN "" ELSE directions[azimuth_step \div 2 + 1]
        b == IF azimuth_step % 2 # 0 THEN "" ELSE directions[azimuth_step \div 2 + 8 + 1]
    IN IF is_southern(s) THEN b ELSE a

direction_end(s, azimuth_step) ==
    LET a == IF azimuth_step % 2 # 0 THEN "" ELSE directions[azimuth_step \div 2 + 1]
        b == IF azimuth_step % 2 # 0 THEN "" ELSE directions[azimuth_step \div 2 + 8 + 1]
    IN IF is_southern(s) THEN a ELSE b

\* climate.py 208-278: the arc of constant azimuth and its two labels;
\* step_size = 11.25 degrees
AzimuthArc(s, azimuth_step) ==
    LET azimuth == -9000 + 1125 * azimuth_step
    IN << Prim("azimuth", "", 0, azimuth, 0, 0, 0, 0, 0),
          Prim("azimuth_label", direction_start(s, azimuth_step), 0, azimuth, 0, 0, 0, 0, 80),
          Prim("azimuth_label", direction_end(s, azimuth_step), 0, azimuth + 18000, 0, 0, 0, 0, 80) >>

\* climate.py 285-291, with the horizon h that the loop over the altitudes
\* recorded; r^2 + hc^2 - hr^2 is taken as r^2 + (hc - hr) * (hc + hr), in
\* tenths of a millimetre
theta_unequal_hours(h, r) ==
    LET rd == r \div 100
        hc == h.horizon_centre \div 100
        hr == h.horizon_radius \div 100
        arg == (1000 * (rd * rd + (hc - hr) * (hc + hr))) \div ((2 * rd * hc) \div 10)
    IN IF arg <= -10000 THEN 18000
       ELSE IF arg >= 10000 THEN 0
       ELSE acos_e4(arg)

Max(a, b) == IF a > b THEN a ELSE b

\* climate.py 295-305: one piece of the line of unequal hour h
UnequalHourPiece(hz, h, r) ==
    LET r0 == r
        r1 == Min(r + unit_mm \div 2, ClimateRadii.r[2])
        theta0 == theta_unequal_hours(hz, r0)
        theta1 == theta_unequal_hours(hz, r1)
        psi0 == theta0 + ((36000 - 2 * theta0) * h) \div 12
        psi1 == theta1 + ((36000 - 2 * theta1) * h) \div 12
    IN Line(r0, psi0, r1, psi1)

\* climate.py 294-305: arange(max(r_5, hr - hc), r_2 + 0.05 mm, 0.5 mm)
UnequalHourLine(hz, h) ==
    Collect(LAMBDA r : UnequalHourPiece(hz, h, r),
            Max(ClimateRadii.r[5], hz.horizon_radius - hz.horizon_centre),
            ClimateRadii.r[2] + unit_mm \div 20, unit_mm \div 2)

HourNumerals ==
    <<"I", "II", "III", "IV", "V", "VI", "VII", "VIII", "IX", "X", "XI", "XII">>

\* climate.py 307-318: the label of unequal hour pos + 1
UnequalHourLabel(hz, pos) ==
    LET r == ClimateRadii.r[2] - 4 * unit_mm
        theta0 == theta_unequal_hours(hz, r)
        psi == theta0 + ((36000 - 2 * theta0) * (2 * pos + 1)) \div 24
        psi0 == ((psi - 18000) * 95) \div 100 + 18000
    IN Text(HourNumerals[pos + 1], r, psi0, 18000 + psi0, 160)

\* climate.py 282-318
UnequalHours(hz) ==
    Flatten([h \in 1..11 |-> UnequalHourLine(hz, h)])
    \o [k \in 1..12 |-> UnequalHourLabel(hz, k - 1)]

\* climate.py 320-337: a space to write the owner's name
OwnerName ==
    LET r_2 == ClimateRadii.r[2]
    IN << Line(r_2, 18000 - 4000, r_2 - (8 * unit_cm) \div 10, 18000 - 4000),
          Arc(0, r_2 - (8 * unit_cm) \div 10, 9000 - 4000, 9000 + 4000),
          Line(r_2 - (8 * unit_cm) \div 10, 18000 + 4000, r_2, 18000 + 4000),
          CircularText("Name:", 0, r_2 - (4 * unit_cm) \div 10, 23800, 120) >>

\* "{:02d}{:s}".format(latitude, "N" or "S")
LatitudeText(s) ==
    (IF Abs(s.latitude) < 10 THEN "0" ELSE "") \o ToString(Abs(s.latitude))
    \o (IF is_southern(s) THEN "S" ELSE "N")

\* climate.py 339-358: the lines through the middle, and the texts
ClimateCross(s) ==
    LET R == ClimateRadii.r
    IN << Line(R[2], -9000, R[2], 9000),
          Line(IF s.astrolabe_type = "full" THEN R[2] ELSE R[4], 18000, R[2], 0),
          CircularText("https://in-the-sky.org/astrolabe/index.html", 0,
                       R[2] - (16 * unit_cm) \div 10, 27000, 70),
          CircularText("(c) Dominic Ford 2010-2024", 0,
                       R[2] - (13 * unit_cm) \div 10, 27000, 70),
          CircularText("Climate prepared for latitude " \o LatitudeText(s), 0,
                       R[2] - unit_cm, 27000, 70) >>

\* climate.py 75-128
ClimateStart ==
    /\ Rendering("Climate", "do_rendering")
    /\ IF ThemeRaises(settings)
       THEN /\ raised' = "KeyError"
            /\ pc' = "page_exit"
            /\ UNCHANGED <<radii, drawn, cursor>>
       ELSE /\ radii' = ClimateRadii
            /\ drawn' = drawn \o ClimateFrame
            /\ cursor' = 1
            /\ pc' = "altitudes"
            /\ UNCHANGED raised
    /\ UNCHANGED <<entry, arguments, component, settings, batch, written, page, result, composite, bbox>>
    /\ UNCHANGED <<inputVars, tableVars>>

\* climate.py 133-183: one pass of the loop over the altitudes
ClimateAltitude ==
    /\ Rendering("Climate", "altitudes")
    /\ IF cursor <= Len(Altitudes)
       THEN /\ drawn' = drawn \o AltitudeLabels(Abs(settings.latitude), Altitudes[cursor])
                        \o << AltitudeCircle(Abs(settings.latitude), Altitudes[cursor]) >>
            /\ radii' = Horizon(radii, Abs(settings.latitude), Altitudes[cursor])
            /\ cursor' = cursor + 1
            /\ pc' = pc
       ELSE /\ cursor' = 1
            /\ pc' = "azimuths"
            /\ UNCHANGED <<drawn, radii>>
    /\ UNCHANGED <<ctlVars, inputVars, tableVars>>

\* climate.py 185-278: one pass of the loop over range(1, 16); an even
\* step looks its two compass points up in text[language] before it draws;
\* after the loop the N or S at the foot of the horizon
ClimateAzimuth ==
    /\ Rendering("Climate", "azimuths")
    /\ IF cursor < 16
       THEN IF cursor % 2 = 0 /\ TextRaises(settings)
            THEN /\ raised' = "KeyError"
                 /\ pc' = "page_exit"
                 /\ UNCHANGED <<drawn, cursor>>
            ELSE /\ drawn' = drawn \o AzimuthArc(settings, cursor)
                 /\ cursor' = cursor + 1
                 /\ UNCHANGED <<pc, raised>>
       ELSE /\ drawn' = Append(drawn,
                Prim("text", IF is_southern(settings) THEN "S" ELSE "N", 0, 0, 0, 0,
                     -radii.horizon_centre + radii.horizon_radius, 0, 80))
            /\ cursor' = 0
            /\ pc' = "hours"
            /\ UNCHANGED raised
    /\ UNCHANGED <<entry, arguments, component, settings, batch, written, page, result, composite, bbox>>
    /\ UNCHANGED <<inputVars, tableVars, radii>>

\* climate.py 281-318: the lines of unequal hours of a full astrolabe
ClimateUnequalHours ==
    /\ Rendering("Climate", "hours")
    /\ settings.astrolabe_type = "full"
    /\ drawn' = drawn \o UnequalHours(radii)
    /\ pc' = "cross"
    /\ UNCHANGED <<ctlVars, inputVars, tableVars, radii, cursor>>

\* climate.py 320-337: the owner's name on a simplified astrolabe
ClimateOwnerName ==
    /\ Rendering("Climate", "hours")
    /\ settings.astrolabe_type # "full"
    /\ drawn' = drawn \o OwnerName
    /\ pc' = "cross"
    /\ UNCHANGED <<ctlVars, inputVars, tableVars, radii, cursor>>

\* climate.py 339-358
ClimateFinish ==
    /\ Rendering("Climate", "cross")
    /\ drawn' = drawn \o ClimateCross(settings)
    /\ pc' = "done"
    /\ UNCHANGED <<ctlVars, inputVars, tableVars, radii, cursor>>

InitClimate ==
    /\ InitCall("Climate", RenderSettings)
    /\ stars = <<>>
    /\ sticks = <<>>
    /\ tuckerman = <<>>
    /\ saints = <<>>

NextClimate ==
    \/ RenderToFile
    \/ ClimateStart
    \/ ClimateAltitude
    \/ ClimateAzimuth
    \/ ClimateUnequalHours
    \/ ClimateOwnerName
    \/ ClimateFinish

SpecClimate == InitClimate /\ [][NextClimate]_vars

----------------------------------------------------------------------------
(* calendar.py *)

julian_day_StrictJulian(year, month, day) ==
    LET last_julian == 15821209
        first_gregorian == 15821220
        req_date == 10000 * year + 100 * month + day
        mo == IF month <= 2 THEN month + 12 ELSE month
        yr == IF month <= 2 THEN year - 1 ELSE year
        b == IF req_date < last_julian
             THEN -2 + ((yr + 4716) \div 4) - 1179
             ELSE (yr \div 400) - (yr \div 100) + (yr \div 4)
    IN IF req_date >= last_julian /\ req_date < first_gregorian
       THEN -1
       ELSE 365 * yr - 679004 + 2400001 + b + (306001 * (mo + 1)) \div 10000 + day

\* calendar.py 37-73, at 12:00:00: the Julian date of noon is a whole
\* number; -1 stands for the IndexError of a date that never happened
julian_day(year, month, day) ==
    LET last_julian == 15821209
        first_gregorian == 15821220
        req_date == 10000 * year + 100 * month + day
        mo == IF month <= 2 THEN month + 12 ELSE month
        yr == IF month <= 2 THEN year - 1 ELSE year
        b == IF req_date <= last_julian
             THEN -2 + ((yr + 4716) \div 4) - 1179
             ELSE (yr \div 400) - (yr \div 100) + (yr \div 4)
    IN IF req_date > last_julian /\ req_date < first_gregorian
       THEN -1
       ELSE 365 * yr - 679004 + 2400001 + b + (306001 * (mo + 1)) \div 10000 + day

\* calendar.py 76-105, for the Julian date jd of a noon (a whole number, at
\* which day_fraction is 0.5 and hour, minute, sec are 12, 0, 0).  int()
\* of the source's float expressions, all positive here, is the floor:
\* (a - 1867216.25) / 36524.25 is (4a - 7468865) / 146097, int(a + b -
\* (b / 4) + 1525) takes the true quotient b / 4 away before it truncates,
\* (c - 122.1) / 365.25 is (20c - 2442) / 7305
inv_julian_day(jd) ==
    LET a == jd
        b == (4 * a - 7468865) \div 146097
        c == IF a < 2361222
             THEN a + 1524
             ELSE a + b + 1525 - ((b + 3) \div 4)
        d == (20 * c - 2442) \div 7305
        e_ == 365 * d + d \div 4
        f == ((c - e_) * 10000) \div 306001
        day == c - e_ - (306001 * f) \div 10000
        month == f - 1 - (IF f >= 14 THEN 12 ELSE 0)
        year == d - 4715 - (IF month >= 3 THEN 1 ELSE 0)
    IN [year |-> year, month |-> month, day |-> day, hour |-> 12, minute |-> 0, sec |-> 0]

----------------------------------------------------------------------------
(* mother_back.py: MotherBack.do_rendering.  A point given in the source   *)
(* as (R cos t, -R sin t) is kept as its radius R and its angle t.          *)

\* mother_back.py 111-133: the handle, the clipping region, circles 2 to 13
MotherBackFrame ==
    LET R == MotherBackRadii.r
        ang == 18000 - acos_e4((unit_cm * 10000) \div r_1)
    IN << Arc(-r_1, 2 * unit_cm, -ang - 9000, ang - 9000),
          Line(r_1 + 2 * unit_cm, 9000, r_1 - 2 * unit_cm, 9000),
          Prim("clip", "", R[1], 0, R[13], 0, 0, 0, 0) >>
       \o [k \in 1..12 |-> Circle(0, R[k + 1])]

\* mother_back.py 137-156: the 30-degree, 5-degree and 1-degree marks
MotherBackTicks ==
    LET R == MotherBackRadii.r
    IN Collect(LAMBDA theta : Line(R[1], theta, R[5], theta), 0, 35900, 3000)
       \o Collect(LAMBDA theta : Line(R[1], theta, R[4], theta), 0, 35900, 500)
       \o Collect(LAMBDA theta : Line(R[2], theta, R[3], theta), 0, 35990, 100)

\* "{:.0f}".format(n / 10): the nearest whole number, a half going to the
\* even neighbour
Format0f_Tenths(n) ==
    LET q == n \div 10
        r == n % 10
    IN ToString(IF r > 5 \/ (r = 5 /\ q % 2 = 1) THEN q + 1 ELSE q)

\* mother_back.py 163-202: the protractor label at theta
ProtractorLabel(theta) ==
    LET R == MotherBackRadii.r
        rt_1 == (R[1] + R[2]) \div 2
        theta_disp == ThetaDisp(theta)
    IN IF theta_disp = 0
       THEN << Text("0", rt_1, theta, -theta - 9000, 120) >>
       ELSE IF theta_disp = -180
       THEN << Text("cross", rt_1, theta, -theta - 9000, 210) >>
       ELSE << Text(Format0f_Tenths(theta_disp), rt_1, theta - 20, -theta - 9000, 120),
               Text(ToString(theta_disp % 10), rt_1, theta + 20, -theta - 9000, 120) >>

\* mother_back.py 209-223: the degrees within a sign, 10, 20 or 30
ZodiacDegreeLabel(theta) ==
    LET R == MotherBackRadii.r
        rt_2 == (R[3] + R[4]) \div 2
        theta_disp == (((theta \div 100) + 380) % 30) + 10
    IN << Text(Format0f_Tenths(theta_disp), rt_2, theta - 20, -theta - 9000, 120),
          Text(ToString(theta_disp % 10), rt_2, theta + 20, -theta - 9000, 120) >>

\* mother_back.py 225-232: the names of the signs, i = 1..12 (the symbol
\* that follows each name is left out)
MotherBackZodiacName(i) ==
    LET R == MotherBackRadii.r
    IN CircularText(ZodiacNames[i], 0, (R[4] * 65 + R[5] * 35) \div 100,
                    100 * (-15 + 30 * i), 100)

\* mother_back.py 163-223: the labels of the two scales of degrees
MotherBackDegreeLabels ==
    Flatten(Collect(LAMBDA theta : ProtractorLabel(theta), -18000, 17900, 1000))
    \o Flatten(Collect(LAMBDA theta : ZodiacDegreeLabel(theta), -18000, 17900, 1000))

\* mother_back.py 163-232
MotherBackScales ==
    MotherBackDegreeLabels
    \o [i \in 1..Len(ZodiacNames) |-> MotherBackZodiacName(i)]

\* text.py 25-38
months ==
    << [mlen |-> 31, name |-> "JANUARY"], [mlen |-> 28, name |-> "FEBRUARY"],
       [mlen |-> 31, name |-> "MARCH"], [mlen |-> 30, name |-> "APRIL"],
       [mlen |-> 31, name |-> "MAY"], [mlen |-> 30, name |-> "JUNE"],
       [mlen |-> 31, name |-> "JULY"], [mlen |-> 31, name |-> "AUGUST"],
       [mlen |-> 30, name |-> "SEPTEMBER"], [mlen |-> 31, name |-> "OCTOBER"],
       [mlen |-> 30, name |-> "NOVEMBER"], [mlen |-> 31, name |-> "DECEMBER"] >>

\* mother_back.py 261-262, 287, 330: 30 * unit_deg * (z - 1) + a * unit_deg,
\* z the sign (1..12) and a the hundredths of a degree within it
SignAngle(z, a) == 3000 * (z - 1) + a

PrevTheta_NeverWrapped(rows, k) ==
    IF k = 1 THEN SignAngle(10, 940)
    ELSE SignAngle(rows[k - 1].z1974, rows[k - 1].a1974)

\* mother_back.py 272, 289-291, 297: the angle of the row before row k,
\* less one revolution when it is beyond the angle of row k
PrevTheta(rows, k) ==
    LET theta == SignAngle(rows[k].z1974, rows[k].a1974)
        prev_theta == IF k = 1 THEN SignAngle(10, 940)
                      ELSE SignAngle(rows[k - 1].z1974, rows[k - 1].a1974)
    IN IF prev_theta > theta THEN prev_theta - unit_rev ELSE prev_theta

\* mother_back.py 292-296: the ticks of the days since the row before
DayTicks(rows, k) ==
    LET R == MotherBackRadii.r
        theta == SignAngle(rows[k].z1974, rows[k].a1974)
        prev_theta == PrevTheta(rows, k)
    IN [i \in 1..rows[k].interval |->
           Prim("day_tick", "", R[7],
                prev_theta + ((theta - prev_theta) * i) \div rows[k].interval,
                R[8], prev_theta + ((theta - prev_theta) * i) \div rows[k].interval,
                0, 0, 0)]

DayLabelled(d) == d % 10 = 0 \/ d > 26

\* mother_back.py 299-321: the marker and the label of a row, 1974
Calendar1974(row) ==
    LET R == MotherBackRadii.r
        rt_2 == (R[8] + R[9]) \div 2
        theta == SignAngle(row.z1974, row.a1974)
    IN << Line(R[8], theta, IF row.last THEN R[10] ELSE R[9], theta) >>
       \o IF DayLabelled(row.d)
          THEN << Prim("day_label_1974", ToString(row.d \div 10), rt_2, theta - 20,
                       0, 0, 0, -theta - 9000, 100),
                  Prim("day_label_1974", ToString(row.d % 10), rt_2, theta + 20,
                       0, 0, 0, -theta - 9000, 100) >>
          ELSE << >>

\* mother_back.py 325-352: the marker and the label of a row, 1394
Calendar1394(row) ==
    LET R == MotherBackRadii.r
        rt_1 == (R[6] + R[7]) \div 2
        theta == SignAngle(row.z1394, row.a1394)
    IN << Line(IF row.last THEN R[5] ELSE R[6], theta, R[7], theta) >>
       \o IF DayLabelled(row.d)
          THEN << Prim("day_label_1394", Format0f_Tenths(row.d), rt_1, theta - 20,
                       0, 0, 0, -theta - 9000, 75),
                  Prim("day_label_1394", ToString(row.d % 10), rt_1, theta + 20,
                       0, 0, 0, -theta - 9000, 75) >>
          ELSE << >>

\* mother_back.py 281-352: everything drawn for row k of the table
CalendarRow(s, rows, k) ==
    DayTicks(rows, k) \o Calendar1974(rows[k])
    \o IF s.astrolabe_type = "full" THEN Calendar1394(rows[k]) ELSE << >>

\* Is t inside the table's range (interp1d raises ValueError outside)
InRange(x, t) == Len(x) > 1 /\ x[1] <= t /\ t <= x[Len(x)]

\* mother_back.py 265-266: scipy.interpolate.interp1d(kind='linear') on
\* rising x, evaluated at t inside the range
Interp1d(x, y, t) ==
    LET i == IF t <= x[1] THEN 1
             ELSE CHOOSE j \in 1..(Len(x) - 1) : x[j] < t /\ t <= x[j + 1]
    IN y[i] + ((y[i + 1] - y[i]) * (t - x[i])) \div (x[i + 1] - x[i])

\* mother_back.py 355-369: the names of month mn + 1 on the two calendars
MonthName(s, R, mn, x74, y74, x94, y94) ==
    LET mlen == months[mn + 1].mlen
        name == months[mn + 1].name
    IN << CircularText(name, 0, (R[9] * 65 + R[10] * 35) \div 100,
                       Interp1d(x74, y74, julian_day(1974, mn + 1, mlen \div 2)), 90) >>
       \o IF s.astrolabe_type = "full"
          THEN << CircularText(name, 0, (R[5] * 65 + R[6] * 35) \div 100,
                       Interp1d(x94, y94, julian_day(1394, mn + 1, mlen \div 2)), 75) >>
          ELSE << >>

SundayLetters == <<"a", "b", "c", "d", "e", "f", "g">>

sunday_letter_OfWeekday(d, m) == SundayLetters[(julian_day(1974, m, d) % 7) + 1]

\* mother_back.py 383-385
sunday_letter(d, m) ==
    SundayLetters[((julian_day(1974, m, d) - julian_day(1974, 1, 1)) % 7) + 1]

\* mother_back.py 381-392: the name and the Sunday letter of a saint's day
SaintsDay(R, row, x74, y74) ==
    LET theta == Interp1d(x74, y74, julian_day(1974, row.m, row.d))
    IN << CircularText(row.name, 0, (R[10] * 65 + R[11] * 35) \div 100, theta, 100),
          CircularText(sunday_letter(row.d, row.m), 0,
                       (R[11] * 65 + R[12] * 35) \div 100, theta, 100) >>

\* mother_back.py 474-526: the four ticks of division i of the shadow
\* scale, kept as the side (theta2 = 1..4) and the division (theta = i)
\* rather than as atan(i / 12), and the labels of every fourth
ShadowDivision(i) ==
    LET R == MotherBackRadii.r
        rs1 == R[12] - (75 * d_12) \div 200
        rs2 == rs1 - (75 * d_12) \div 100
        rs == IF i % 4 = 0 THEN rs2 ELSE rs1
        r_label == (rs1 + rs2) \div 2
    IN Flatten([side \in 1..4 |->
           << Prim("shadow_tick", "", rs, i, R[12], side, 0, 0, 0) >>
           \o IF i % 4 = 0
              THEN << Prim("shadow_label", ToString(i), r_label, i, 0, side, 0, 0, 64) >>
              ELSE << >>])

\* mother_back.py 395-468, 527-534: the frame and the words of the shadow
\* scale (theta_b = -45 degrees, theta_c = -135 degrees)
ShadowFrame ==
    LET R == MotherBackRadii.r
        rs1 == R[12] - (75 * d_12) \div 200
        rs2 == rs1 - (75 * d_12) \div 100
        r_label == (rs1 + rs2) \div 2
        Corner(r) == << Prim("shadow_side", "", r, -4500, r, 0, 0, 0, 0),
                        Prim("shadow_side", "", r, -4500, r, -13500, 0, 0, 0),
                        Prim("shadow_side", "", r, -13500, r, 18000, 0, 0, 0) >>
    IN << Line(R[12], 0, R[13], 0), Line(R[12], -4500, R[13], -4500),
          Line(R[12], -13500, R[13], -13500), Line(R[12], 18000, R[13], 18000) >>
       \o Corner(R[12])
       \o << Prim("shadow_side", "", R[12], -9000, R[13], -9000, 0, 0, 0),
             Line(R[12], 9000, R[13], 9000) >>
       \o Corner(rs1) \o Corner(rs2)
       \o << Text("UMBRA", rs2, -13500, 0, 64), Text("UMBRA", rs2, -13500, 9000, 64),
             Text("RECTA", rs2, -13500, 0, 64), Text("VERSA", rs2, -4500, -9000, 64),
             Text("ORIENS", (R[12] * 95) \div 100, 18000, 0, 64),
             Text("OCCIDENS", (R[12] * 95) \div 100, 0, 0, 64) >>

\* mother_back.py 545-555: the arc of the unequal hours at theta (whole
\* degrees); its atan2 comes to 2 * theta
UnequalHourArc(theta) ==
    LET r_12 == MotherBackRadii.r[12]
        y_centre == (r_12 * cos_deg(theta)) \div 20000
                    + TimesTan((r_12 * sin_deg(theta)) \div 20000, 4 * theta)
        arc_end == 200 * theta
    IN Arc(-y_centre, y_centre, arc_end - 9000, -arc_end - 9000)

\* mother_back.py 394-555
ShadowScale ==
    LET R == MotherBackRadii.r
        rs1 == R[12] - (75 * d_12) \div 200
        rs2 == rs1 - (75 * d_12) \div 100
        r_label == (rs1 + rs2) \div 2
    IN ShadowFrame
       \o Flatten([i \in 1..11 |-> ShadowDivision(i)])
       \o << Prim("shadow_label", "12", r_label, 12, 0, 2, 0, -4500, 64),
             Prim("shadow_label", "12", r_label, 12, 0, 3, 0, 4500, 64),
             Circle(-(R[12] \div 2), R[12] \div 2) >>
       \o Collect(LAMBDA theta : UnequalHourArc(theta), 15, 76, 15)

\* mother_back.py 66-232
MotherBackStart ==
    /\ Rendering("MotherBack", "do_rendering")
    /\ IF ThemeRaises(settings)
       THEN /\ raised' = "KeyError"
            /\ pc' = "page_exit"
            /\ UNCHANGED <<radii, drawn, cursor>>
       ELSE IF TextRaises(settings)
       THEN /\ radii' = MotherBackRadii
            /\ drawn' = drawn \o MotherBackFrame \o MotherBackTicks
                         \o MotherBackDegreeLabels
            /\ raised' = "KeyError"
            /\ pc' = "page_exit"
            /\ UNCHANGED cursor
       ELSE /\ radii' = MotherBackRadii
            /\ drawn' = drawn \o MotherBackFrame \o MotherBackTicks \o MotherBackScales
            /\ cursor' = 1
            /\ pc' = "tuckerman"
            /\ UNCHANGED raised
    /\ UNCHANGED <<entry, arguments, component, settings, batch, written, page, result, composite, bbox>>
    /\ UNCHANGED <<inputVars, tableVars>>

\* mother_back.py 262: columns[7] needs a row of eight numbers
TuckermanColumns(row) == "a1974" \in DOMAIN row

\* mother_back.py 245-266: one row of the table goes into the four lists;
\* after the last row the two interpolators are built; a row of seven
\* numbers raises IndexError out of do_rendering at the fourth append
MotherBackTuckerman ==
    /\ Rendering("MotherBack", "tuckerman")
    /\ IF cursor <= Len(tuckerman)
       THEN LET row == tuckerman[cursor]
            IN /\ x_1394' = Append(x_1394, julian_day(1394, row.m, row.d))
               /\ x_1974' = Append(x_1974, julian_day(1974, row.m, row.d))
               /\ y_1394' = Append(y_1394, SignAngle(row.z1394, row.a1394))
               /\ IF TuckermanColumns(row)
                  THEN /\ y_1974' = Append(y_1974, SignAngle(row.z1974, row.a1974))
                       /\ cursor' = cursor + 1
                       /\ UNCHANGED <<pc, raised>>
                  ELSE /\ raised' = "IndexError"
                       /\ pc' = "page_exit"
                       /\ UNCHANGED <<y_1974, cursor>>
       ELSE /\ cursor' = 1
            /\ pc' = "calendar"
            /\ UNCHANGED <<tableVars, raised>>
    /\ UNCHANGED <<entry, arguments, component, settings, batch, written, page, result, composite, bbox>>
    /\ UNCHANGED <<inputVars, radii, drawn>>

\* mother_back.py 274-352: one row of the table on the calendars
MotherBackCalendar ==
    /\ Rendering("MotherBack", "calendar")
    /\ IF cursor <= Len(tuckerman)
       THEN /\ drawn' = drawn \o CalendarRow(settings, tuckerman, cursor)
            /\ cursor' = cursor + 1
            /\ pc' = pc
       ELSE /\ cursor' = 0
            /\ pc' = "months"
            /\ UNCHANGED drawn
    /\ UNCHANGED <<ctlVars, inputVars, tableVars, radii>>

\* mother_back.py 354-369: one month's name; interp1d raises ValueError
\* for a day outside the table
MotherBackMonth ==
    /\ Rendering("MotherBack", "months")
    /\ IF cursor < Len(months)
       THEN IF /\ InRange(x_1974, julian_day(1974, cursor + 1, months[cursor + 1].mlen \div 2))
               /\ \/ settings.astrolabe_type # "full"
                  \/ InRange(x_1394, julian_day(1394, cursor + 1, months[cursor + 1].mlen \div 2))
            THEN /\ drawn' = drawn \o MonthName(settings, radii.r, cursor,
                                                x_1974, y_1974, x_1394, y_1394)
                 /\ cursor' = cursor + 1
                 /\ UNCHANGED <<pc, raised>>
            ELSE /\ raised' = "ValueError"
                 /\ pc' = "page_exit"
                 /\ UNCHANGED <<drawn, cursor>>
       ELSE /\ cursor' = 1
            /\ pc' = "saints"
            /\ UNCHANGED <<drawn, raised>>
    /\ UNCHANGED <<entry, arguments, component, settings, batch, written, page, result, composite, bbox>>
    /\ UNCHANGED <<inputVars, tableVars, radii>>

\* mother_back.py 381: d, m, name = line.split() needs three words
SaintUnpacks(row) == DOMAIN row = {"d", "m", "name"}

\* mother_back.py 371-392: one row of saints_days.dat; a row that does not
\* unpack raises ValueError, as interp1d does for a day outside the table
MotherBackSaint ==
    /\ Rendering("MotherBack", "saints")
    /\ IF cursor <= Len(saints)
       THEN IF /\ SaintUnpacks(saints[cursor])
               /\ InRange(x_1974, julian_day(1974, saints[cursor].m, saints[cursor].d))
            THEN /\ drawn' = drawn \o SaintsDay(radii.r, saints[cursor], x_1974, y_1974)
                 /\ cursor' = cursor + 1
                 /\ UNCHANGED <<pc, raised>>
            ELSE /\ raised' = "ValueError"
                 /\ pc' = "page_exit"
                 /\ UNCHANGED <<drawn, cursor>>
       ELSE /\ cursor' = 0
            /\ pc' = "shadow_scale"
            /\ UNCHANGED <<drawn, raised>>
    /\ UNCHANGED <<entry, arguments, component, settings, batch, written, page, result, composite, bbox>>
    /\ UNCHANGED <<inputVars, tableVars, radii>>

\* mother_back.py 394-560: the shadow scale of a full astrolabe, and the
\* copyright text
MotherBackFinish ==
    /\ Rendering("MotherBack", "shadow_scale")
    /\ drawn' = drawn
                \o (IF settings.astrolabe_type = "full" THEN ShadowScale ELSE << >>)
                \o << CircularText("(c) Dominic Ford 2010-2024", 0,
                                   radii.r[12] - 2 * unit_mm, 27000, 70) >>
    /\ pc' = "done"
    /\ UNCHANGED <<ctlVars, inputVars, tableVars, radii, cursor>>

----------------------------------------------------------------------------
(* MotherBack rendered on a table of solar longitudes *)

\* The rows of a month: the 5th, 10th, 15th, 20th, 25th and the last day
RowDay(m, k) == IF k = 6 THEN months[m].mlen ELSE 5 * k

RECURSIVE DaysBefore(_)
DaysBefore(m) == IF m = 1 THEN 0 ELSE DaysBefore(m - 1) + months[m - 1].mlen

\* The Sun's longitude, in hundredths of a degree, n days after it was at
\* base: it moves a revolution in 365.25 days
Longitude(base, n) == (base + (n * 144000) \div 1461) % unit_rev

\* One row of a table: month, day, days since the row before, whether the
\* month ends, and the sign and the angle within it in 1394 and in 1974
TuckermanRow(m, k, base1394, base1974) ==
    LET d == RowDay(m, k)
        n == DaysBefore(m) + d
    IN [m |-> m, d |-> d,
        interval |-> IF k = 1 THEN 5 ELSE d - RowDay(m, k - 1),
        last |-> (k = 6),
        z1394 |-> (Longitude(base1394, n) \div 3000) + 1,
        a1394 |-> Longitude(base1394, n) % 3000,
        z1974 |-> (Longitude(base1974, n) \div 3000) + 1,
        a1974 |-> Longitude(base1974, n) % 3000]

TuckermanTable(base1394, base1974) ==
    [i \in 1..(6 * Len(months)) |->
        TuckermanRow((i - 1) \div 6 + 1, ((i - 1) % 6) + 1, base1394, base1974)]

\* Longitudes of the Sun on 31 December, before the years 1394 and 1974
Tables == { TuckermanTable(28830 + e, 27940 + e) : e \in {0, 75} }

Saint(d, m, name) == [d |-> d, m |-> m, name |-> name]

SaintPool ==
    { Saint(21, 3, "Benedict"), Saint(24, 6, "Johannes"), Saint(25, 12, "Nativitas") }

NSaints == 1

MotherBackSettings == {s \in RenderSettings : s.latitude \in {-52, 10, 85}}

InitMotherBack ==
    /\ InitCall("MotherBack", MotherBackSettings)
    /\ stars = <<>>
    /\ sticks = <<>>
    /\ tuckerman \in Tables
    /\ saints \in [1..NSaints -> SaintPool]

NextMotherBack ==
    \/ RenderToFile
    \/ MotherBackStart
    \/ MotherBackTuckerman
    \/ MotherBackCalendar
    \/ MotherBackMonth
    \/ MotherBackSaint
    \/ MotherBackFinish

SpecMotherBack == InitMotherBack /\ [][NextMotherBack]_vars

----------------------------------------------------------------------------
(* The three components that define the radii r_2 .. r_5, each rendered by *)
(* a direct call.                                                           *)

InitLayouts == InitMotherFront \/ InitClimate \/ InitRete

NextLayouts ==
    \/ RenderToFile
    \/ MotherFrontStart
    \/ MotherFrontTicks
    \/ MotherFrontDegrees
    \/ MotherFrontHours
    \/ ClimateStart
    \/ ClimateAltitude
    \/ ClimateAzimuth
    \/ ClimateUnequalHours
    \/ ClimateOwnerName
    \/ ClimateFinish
    \/ ReteStart
    \/ ReteStick
    \/ ReteStar
    \/ ReteRaScale

SpecLayouts == InitLayouts /\ [][NextLayouts]_vars

----------------------------------------------------------------------------
(* rule.py: Rule.do_rendering.  The rule and the alidade are drawn in      *)
(* cartesian coordinates: a stroke from (x, y) to (x2, y2) is kept with r  *)
(* = x, theta = y, r2 = x2, theta2 = y2, and a text at (x, y) with r = x,  *)
(* theta = y.                                                               *)

\* rule.py 77-94
RuleRadii ==
    LET r_2 == r_1 - d_12 * 3 - unit_mm
        r_3 == centre_scaling(d_12)
        r_4 == TimesTan(r_2, HalfCoInclination_q)
    IN [r |-> <<r_1, r_2, r_3, r_4>>, tab |-> 0,
        r_6 |-> (8 * unit_cm) \div 10, r_12 |-> r_1 - d_12 * 10]

\* rule.py 76, 135
margin == 2 * unit_cm
separation == (22 * unit_cm) \div 10

\* rule.py 149-150
major_tick_length == 4 * unit_mm
minor_tick_length == 2 * unit_mm

\* The degree sign U+00B0 of the labels, written in ASCII
degree_sign == "deg"

Stroke(x, y, x2, y2) == Prim("stroke", "", x, y, x2, y2, 0, 0, 0)

RuleText(txt, x, y, rot, size) == Prim("text", txt, x, y, 0, 0, 0, rot, size)

\* rule.py 97-132: rule_draw(context, xpos, 0, sight)
rule_draw(R, xpos, sight) ==
    << Prim("circle", "", R.r[3], 0, xpos, 0, 0, 0, 0),
       Prim("arc", "", R.r_6, -9000, xpos, 0, 0, 0, 0),
       Prim("arc", "", R.r_6, 9000, xpos, 18000, 0, 0, 0),
       Stroke(xpos, R.r_6, xpos, R.r[2] + margin + R.r_6),
       Stroke(xpos, R.r[2] + margin + R.r_6, xpos + R.r_6, R.r[2] + margin),
       Stroke(xpos + R.r_6, R.r[2] + margin, xpos + R.r_6, 0),
       Stroke(xpos, -R.r_6, xpos, -(R.r[2] + margin) - R.r_6),
       Stroke(xpos, -(R.r[2] + margin) - R.r_6, xpos - R.r_6, -(R.r[2] + margin)),
       Stroke(xpos - R.r_6, -(R.r[2] + margin), xpos - R.r_6, 0) >>
    \o (IF sight
        THEN << Prim("rectangle", "", xpos, -((R.r[2] * 65) \div 100),
                     xpos + R.r[2] \div 10, -((R.r[2] * 85) \div 100), 0, 0, 0),
                Prim("rectangle", "", xpos, (R.r[2] * 65) \div 100,
                     xpos - R.r[2] \div 10, (R.r[2] * 85) \div 100, 0, 0, 0) >>
        ELSE << >>)

\* rule.py 134-146
RuleOutlines(R) ==
    rule_draw(R, 0, FALSE)
    \o << RuleText("(a) Rule", -7 * unit_mm, R.r[2] + margin + (3 * R.r_6) \div 2, 0, 90) >>
    \o rule_draw(R, separation, TRUE)
    \o << RuleText("(b) Alidade", separation - 7 * unit_mm,
                   R.r[2] + margin + (3 * R.r_6) \div 2, 0, 90) >>

\* rule.py 156: the declinations of the scale are range(-25, 71, 5)
Declinations == [k \in 1..20 |-> -25 + 5 * (k - 1)]

\* rule.py 157-158: r = r_4 * tan((90 - dec) / 2 degrees), before the sign
\* of dec is changed
DeclinationRadius(R, dec) == TimesTan(R.r[4], (90 - dec) * 2)

\* rule.py 159-160: in the southern hemisphere dec *= -1
DeclinationShown(s, dec) == IF is_southern(s) THEN -dec ELSE dec

\* rule.py 161: a tick is a major one when (dec < 60) and (dec % 10 == 0),
\* tested on the value after the change of sign
MajorTick(s, dec) ==
    DeclinationShown(s, dec) < 60 /\ DeclinationShown(s, dec) % 10 = 0

\* rule.py 151-154
DeclinationFont(s) == IF is_southern(s) THEN 70 ELSE 100

\* rule.py 156-181: one pass of the loop over the declinations
DeclinationTick(s, R, dec) ==
    LET r == DeclinationRadius(R, dec)
        label == ToString(DeclinationShown(s, dec)) \o degree_sign
    IN IF MajorTick(s, dec)
       THEN << Prim("major", "", 0, -r, -major_tick_length, -r, dec, 0, 0),
               Prim("dec_label", label, -major_tick_length, -r, 0, 0, dec, 9000,
                    DeclinationFont(s)),
               Prim("major", "", 0, r, major_tick_length, r, dec, 0, 0),
               Prim("dec_label", label, major_tick_length, r, 0, 0, dec, -9000,
                    DeclinationFont(s)) >>
       ELSE << Prim("minor", "", 0, -r, -minor_tick_length, -r, dec, 0, 0),
               Prim("minor", "", 0, r, minor_tick_length, r, dec, 0, 0) >>

\* rule.py 184-211: the solar-altitude scale of the alidade
AltitudeTick(R, i) ==
    LET r == (R.r_12 * sin_deg(i)) \div 10000
    IN << Stroke(separation, -r, separation - major_tick_length \div 2, -r),
          Stroke(separation, r, separation + major_tick_length \div 2, r) >>

AltitudeMark(R, i) ==
    LET r == (R.r_12 * sin_deg(i)) \div 10000
    IN << Stroke(separation, -r, separation - major_tick_length, -r),
          RuleText(ToString(i) \o degree_sign, separation - major_tick_length, -r, 9000, 100),
          Stroke(separation, r, separation + major_tick_length, r),
          RuleText(ToString(i) \o degree_sign, separation + major_tick_length, r, -9000, 100) >>

SolarAltitudeScale(R) ==
    Flatten([k \in 1..15 |-> AltitudeTick(R, 20 + 5 * (k - 1))])
    \o AltitudeMark(R, 20) \o AltitudeMark(R, 35)
    \o AltitudeMark(R, 50) \o AltitudeMark(R, 80)

\* rule.py 71-146
RuleStart ==
    /\ Rendering("Rule", "do_rendering")
    /\ IF ThemeRaises(settings)
       THEN /\ raised' = "KeyError"
            /\ pc' = "page_exit"
            /\ UNCHANGED <<radii, drawn, cursor>>
       ELSE /\ radii' = RuleRadii
            /\ drawn' = drawn \o RuleOutlines(RuleRadii)
            /\ cursor' = 1
            /\ pc' = "declinations"
            /\ UNCHANGED raised
    /\ UNCHANGED <<entry, arguments, component, settings, batch, written, page, result, composite, bbox>>
    /\ UNCHANGED <<inputVars, tableVars>>

\* rule.py 148-181: one pass of the loop over range(-25, 71, 5)
RuleDeclination ==
    /\ Rendering("Rule", "declinations")
    /\ IF cursor <= Len(Declinations)
       THEN /\ drawn' = drawn \o DeclinationTick(settings, radii, Declinations[cursor])
            /\ cursor' = cursor + 1
            /\ pc' = pc
       ELSE /\ pc' = "altitudes"
            /\ cursor' = 0
            /\ UNCHANGED drawn
    /\ UNCHANGED <<ctlVars, inputVars, tableVars, radii>>

\* rule.py 183-211: only a full astrolabe has the scale of solar altitudes
RuleAltitudes ==
    /\ Rendering("Rule", "altitudes")
    /\ drawn' = IF settings.astrolabe_type = "full"
                THEN drawn \o SolarAltitudeScale(radii)
                ELSE drawn
    /\ pc' = "done"
    /\ UNCHANGED <<ctlVars, inputVars, tableVars, radii, cursor>>

InitRule ==
    /\ InitCall("Rule", RenderSettings)
    /\ stars = <<>>
    /\ sticks = <<>>
    /\ tuckerman = <<>>
    /\ saints = <<>>

NextRule ==
    \/ RenderToFile
    \/ RuleStart
    \/ RuleDeclination
    \/ RuleAltitudes

SpecRule == InitRule /\ [][NextRule]_vars

----------------------------------------------------------------------------
(* Rete and MotherBack rendered on tables in which one row may be short:   *)
(* a stick-figure row of four words, a row of tuckerman.dat of seven       *)
(* numbers, a saint's day of two words.                                     *)

ShortStick == [ra1 |-> 100, dec1 |-> -20, ra2 |-> 110]

ShortSaint == [d |-> 24, m |-> 6]

\* The table t with the last column of row k missing
ShortRowAt(t, k) ==
    [i \in DOMAIN t |->
        IF i = k THEN [f \in DOMAIN t[i] \ {"a1974"} |-> t[i][f]] ELSE t[i]]

ShortRows == {2, 40}

TableSticks == 2

InitReteTables ==
    /\ InitCall("Rete", {s \in ReteSettings : s.latitude = 52})
    /\ stars \in [1..1 -> {Star(101, -17, -146)}]
    /\ sticks \in [1..TableSticks -> StickPool \cup {ShortStick}]
    /\ tuckerman = <<>>
    /\ saints = <<>>

InitMotherBackTables ==
    /\ InitCall("MotherBack", {s \in MotherBackSettings : s.latitude = 10})
    /\ stars = <<>>
    /\ sticks = <<>>
    /\ tuckerman \in Tables \cup {ShortRowAt(t, k) : t \in Tables, k \in ShortRows}
    /\ saints \in [1..NSaints -> SaintPool \cup {ShortSaint}]

InitTables == InitReteTables \/ InitMotherBackTables

NextTables ==
    \/ RenderToFile
    \/ ReteStart
    \/ ReteStick
    \/ ReteStar
    \/ ReteRaScale
    \/ MotherBackStart
    \/ MotherBackTuckerman
    \/ MotherBackCalendar
    \/ MotherBackMonth
    \/ MotherBackSaint
    \/ MotherBackFinish

SpecTables == InitTables /\ [][NextTables]_vars

----------------------------------------------------------------------------
(* render_to_file called directly with any img_format string.              *)

PageFormats == {"pdf", "png", "svg", "jpg", "PNG", ""}

InitPage ==
    /\ entry = "call"
    /\ arguments \in [latitude : {52}, img_format : PageFormats, theme : {"default"}]
    /\ component \in Components
    /\ settings \in RenderSettings
    /\ pc = "render_to_file"
    /\ raised = "none"
    /\ batch = NoBatch
    /\ written = << >>
    /\ page = NoPage
    /\ result = NoResult
    /\ composite = NoComposite
    /\ RenderIdle

NextPage ==
    \/ RenderToFile
    \/ DoRendering
    \/ PageExit
    \/ Return
    \/ PageFinalize

SpecPage == InitPage /\ [][NextPage]_vars

----------------------------------------------------------------------------
(* render_to_file called directly, with settings that hold every key or    *)
(* with the settings of a script entry, which make do_rendering raise;     *)
(* after the with block is left the page's __del__ may be called again,    *)
(* by the caller or by the interpreter's finalizer.                         *)

\* graphics_context.py 81-112: a further call of __del__ or __exit__ on the
\* page after render_to_file left its with block
PageDelAgain ==
    /\ entry = "call"
    /\ pc \in {"returned", "exit", "uncaught"}
    /\ page.format # "none"
    /\ written' = FilesAfterDel(page, written)
    /\ page' = [page EXCEPT !.surface = "none"]
    /\ UNCHANGED <<entry, arguments, component, settings, pc, raised, batch, result, composite>>
    /\ UNCHANGED renderVars

InitFinalize ==
    /\ entry = "call"
    /\ arguments \in [latitude : {52}, img_format : {"pdf", "png", "svg", "jpg"},
                      theme : {"default"}]
    /\ component \in Components
    /\ settings \in RenderSettings \cup {ScriptSettings(52), ScriptSettings(-52)}
    /\ pc = "render_to_file"
    /\ raised = "none"
    /\ batch = NoBatch
    /\ written = << >>
    /\ page = NoPage
    /\ result = NoResult
    /\ composite = NoComposite
    /\ RenderIdle

NextFinalize ==
    \/ RenderToFile
    \/ DoRendering
    \/ PageExit
    \/ Return
    \/ PageFinalize
    \/ PageDelAgain

SpecFinalize == InitFinalize /\ [][NextFinalize]_vars

----------------------------------------------------------------------------
(* The four components rendered by a direct call with settings whose theme *)
(* or language may be no key of themes or of text.                         *)

KeySettings ==
    [latitude : {52}, language : {"en", "xx"}, theme : {"default", "dark"},
     astrolabe_type : {"full", "simple"}]

InitKeys ==
    /\ \E c \in {"MotherFront", "MotherBack", "Rete", "Climate"} : InitCall(c, KeySettings)
    /\ stars = << Star(101, -17, -146) >>
    /\ sticks = << Stick(101, -17, 95, -18) >>
    /\ tuckerman = TuckermanTable(28830, 27940)
    /\ saints = << Saint(24, 6, "Johannes") >>

NextKeys ==
    \/ RenderToFile
    \/ MotherFrontStart
    \/ MotherFrontTicks
    \/ MotherFrontDegrees
    \/ MotherFrontHours
    \/ ClimateStart
    \/ ClimateAltitude
    \/ ClimateAzimuth
    \/ ClimateUnequalHours
    \/ ClimateOwnerName
    \/ ClimateFinish
    \/ ReteStart
    \/ ReteStick
    \/ ReteStar
    \/ ReteRaScale
    \/ MotherBackStart
    \/ MotherBackTuckerman
    \/ MotherBackCalendar
    \/ MotherBackMonth
    \/ MotherBackSaint
    \/ MotherBackFinish
    \/ PageExit

SpecKeys == InitKeys /\ [][NextKeys]_vars

----------------------------------------------------------------------------
(* graphics_context.py: CompositeComponent.do_rendering, on lists of the   *)
(* three components that are drawn on the front of the astrolabe.           *)

\* Everything Climate.do_rendering draws for settings s
ClimateOutput(s) ==
    LET hz == Horizon(ClimateRadii, Abs(s.latitude), 0)
    IN ClimateFrame
       \o Flatten([k \in 1..Len(Altitudes) |->
                     AltitudeLabels(Abs(s.latitude), Altitudes[k])
                     \o << AltitudeCircle(Abs(s.latitude), Altitudes[k]) >>])
       \o Flatten([k \in 1..15 |-> AzimuthArc(s, k)])
       \o << Prim("text", IF is_southern(s) THEN "S" ELSE "N", 0, 0, 0, 0,
                  -hz.horizon_centre + hz.horizon_radius, 0, 80) >>
       \o (IF s.astrolabe_type = "full" THEN UnequalHours(hz) ELSE OwnerName)
       \o ClimateCross(s)

\* What the do_rendering of component c draws when it is rendered alone
ComponentOutput(c, s) ==
    CASE c = "MotherFront" -> MotherFrontOutput(s)
      [] c = "Climate"     -> ClimateOutput(s)
      [] c = "Rete"        -> ReteOutput(s, sticks, stars)

\* graphics_context.py 256-260: the clipping region c stays in force on the
\* context for everything drawn after it; a circle about the origin that is
\* wider than the outer edge of c, or narrower than the hole of a region
\* that has no other edge, lies wholly outside the region and leaves
\* nothing on the surface
Hidden(p, c) ==
    /\ p.kind = "circle"
    /\ p.cy = 0
    /\ c.kind = "clip"
    /\ (p.r > c.r \/ (c.cy = 0 /\ p.r < c.r2))

ItemAt_Reversed(components, k) == components[Len(components) + 1 - k]

\* graphics_context.py 810: for item in self.components, the k-th item
ItemAt(components, k) == components[k]

\* graphics_context.py 798-811: the head of the loop over the components:
\* the first item, the next item when the do_rendering of an item has
\* returned, or the end of the loop; every item is handed the settings and
\* the context of the composite
CompositeItem ==
    /\ entry = "call"
    /\ \/ component = "CompositeComponent" /\ pc = "do_rendering"
       \/ composite.item > 0 /\ pc = "done"
    /\ IF composite.item < Len(composite.components)
       THEN /\ component' = ItemAt(composite.components, composite.item + 1)
            /\ composite' = [composite EXCEPT
                                !.item = @ + 1,
                                !.starts = Append(@, [component |-> component',
                                                      at |-> Len(drawn)])]
            /\ pc' = "do_rendering"
       ELSE /\ component' = "CompositeComponent"
            /\ composite' = [composite EXCEPT !.item = 0]
            /\ pc' = "page_exit"
    /\ UNCHANGED <<entry, arguments, settings, raised, batch, written, page, result>>
    /\ UNCHANGED renderVars

MaxItems == 2

CompositeItems == {"MotherFront", "Climate", "Rete"}

InitComposite ==
    /\ entry = "call"
    /\ arguments = NoArguments
    /\ component = "CompositeComponent"
    /\ settings \in {s \in RenderSettings : s.latitude \in {-52, 52}}
    /\ pc = "render_to_file"
    /\ raised = "none"
    /\ batch = NoBatch
    /\ written = << >>
    /\ page = NoPage
    /\ result = NoResult
    /\ composite \in [components : UNION {[1..k -> CompositeItems] : k \in 0..MaxItems},
                       item : {0}, starts : {<< >>}]
    /\ bbox = <<>>
    /\ radii = <<>>
    /\ drawn = <<>>
    /\ cursor = 0
    /\ stars = << Star(101, -17, -146), Star(10, 0, 401) >>
    /\ sticks = << Stick(101, -17, 95, -18) >>
    /\ tuckerman = <<>>
    /\ saints = <<>>
    /\ x_1974 = <<>>
    /\ y_1974 = <<>>
    /\ x_1394 = <<>>
    /\ y_1394 = <<>>

NextComposite ==
    \/ RenderToFile
    \/ CompositeItem
    \/ MotherFrontStart
    \/ MotherFrontTicks
    \/ MotherFrontDegrees
    \/ MotherFrontHours
    \/ ClimateStart
    \/ ClimateAltitude
    \/ ClimateAzimuth
    \/ ClimateUnequalHours
    \/ ClimateOwnerName
    \/ ClimateFinish
    \/ ReteStart
    \/ ReteStick
    \/ ReteStar
    \/ ReteRaScale
    \/ PageExit

SpecComposite == InitComposite /\ [][NextComposite]_vars

----------------------------------------------------------------------------
(* CompositeComponent(components).bounding_box called directly.            *)

MaxComponents == 3

\* The lists of at most n of the five components
ComponentLists(n) == UNION { [1..k -> Components] : k \in 0..n }

InitCompositeBox ==
    /\ entry = "function"
    /\ component = "CompositeComponent"
    /\ arguments = NoArguments
    /\ settings = NoSettings
    /\ pc = "call"
    /\ raised = "none"
    /\ batch = NoBatch
    /\ written = << >>
    /\ page = NoPage
    /\ result = NoResult
    /\ composite \in [components : ComponentLists(MaxComponents), item : {0},
                       starts : {<< >>}]
    /\ RenderIdle

\* graphics_context.py 780-796: min and max of an empty list raise ValueError
CompositeBoundingBoxCall ==
    /\ entry = "function"
    /\ component = "CompositeComponent"
    /\ pc = "call"
    /\ IF composite.components = << >>
       THEN /\ raised' = "ValueError"
            /\ pc' = "raised"
            /\ UNCHANGED result
       ELSE /\ result' = [returned |-> TRUE,
                          value |-> CompositeBoundingBox(composite.components)]
            /\ pc' = "returned"
            /\ UNCHANGED raised
    /\ UNCHANGED <<entry, arguments, component, settings, batch, written, page, composite>>
    /\ UNCHANGED renderVars

NextCompositeBox == CompositeBoundingBoxCall

SpecCompositeBox == InitCompositeBox /\ [][NextCompositeBox]_vars

----------------------------------------------------------------------------
(* The saints' days of MotherBack: the render on a small saints_days.dat,  *)
(* and the Sunday letter of mother_back.py 383-385 evaluated on its own    *)
(* for every date of 1974.                                                  *)

Dates1974 == {dt \in [m : 1..12, d : 1..31] : dt.d <= months[dt.m].mlen}

InitSundayLetter ==
    /\ entry = "function"
    /\ component = "sunday_letter"
    /\ \E dt \in Dates1974 : arguments = [year |-> 1974, month |-> dt.m, day |-> dt.d]
    /\ settings = NoSettings
    /\ pc = "call"
    /\ raised = "none"
    /\ batch = NoBatch
    /\ written = << >>
    /\ page = NoPage
    /\ result = NoResult
    /\ composite = NoComposite
    /\ RenderIdle

\* mother_back.py 383-385
SundayLetterCall ==
    /\ entry = "function"
    /\ component = "sunday_letter"
    /\ pc = "call"
    /\ result' = [returned |-> TRUE, value |-> sunday_letter(arguments.day, arguments.month)]
    /\ pc' = "returned"
    /\ UNCHANGED <<entry, arguments, component, settings, raised, batch, written, page, composite>>
    /\ UNCHANGED renderVars

InitSaints == InitMotherBack \/ InitSundayLetter

NextSaints == NextMotherBack \/ SundayLetterCall

SpecSaints == InitSaints /\ [][NextSaints]_vars

----------------------------------------------------------------------------
(* calendar.py called directly: julian_day(year, month, day, 12, 0, 0) for *)
(* the documented months 1-12 and days 1-31.                               *)

CalendarYears == {1394, 1581, 1582, 1583, 1974}

InitCalendar ==
    /\ entry = "function"
    /\ component = "julian_day"
    /\ arguments \in [year : CalendarYears, month : 1..12, day : 1..31]
    /\ settings = NoSettings
    /\ pc = "call"
    /\ raised = "none"
    /\ batch = NoBatch
    /\ written = << >>
    /\ page = NoPage
    /\ result = NoResult
    /\ composite = NoComposite
    /\ RenderIdle

\* calendar.py 37-73: raise IndexError, or return the Julian date
JulianDayCall ==
    /\ entry = "function"
    /\ component = "julian_day"
    /\ pc = "call"
    /\ LET jd == julian_day(arguments.year, arguments.month, arguments.day)
       IN IF jd = -1
          THEN /\ raised' = "IndexError"
               /\ pc' = "raised"
               /\ UNCHANGED result
          ELSE /\ result' = [returned |-> TRUE, value |-> jd]
               /\ pc' = "returned"
               /\ UNCHANGED raised
    /\ UNCHANGED <<entry, arguments, component, settings, batch, written, page, composite>>
    /\ UNCHANGED renderVars

NextCalendar == JulianDayCall

SpecCalendar == InitCalendar /\ [][NextCalendar]_vars

----------------------------------------------------------------------------
(* calendar.py called directly: inv_julian_day applied to what julian_day  *)
(* returned for the noon of a date.                                         *)

RoundTripYears == {1394, 1582, 1583, 1752, 1974, 2000, 2024}

InitRoundTrip ==
    /\ entry = "function"
    /\ component = "julian_day"
    /\ arguments \in [year : RoundTripYears, month : 1..12, day : 1..31]
    /\ settings = NoSettings
    /\ pc = "call"
    /\ raised = "none"
    /\ batch = NoBatch
    /\ written = << >>
    /\ page = NoPage
    /\ result = NoResult
    /\ composite = NoComposite
    /\ RenderIdle

\* calendar.py 76-105: inv_julian_day(jd) on the Julian date returned
InvJulianDayCall ==
    /\ entry = "function"
    /\ component = "julian_day"
    /\ pc = "returned"
    /\ result' = [returned |-> TRUE, value |-> result.value,
                  date |-> inv_julian_day(result.value)]
    /\ pc' = "inverted"
    /\ UNCHANGED <<entry, arguments, component, settings, raised, batch, written, page, composite>>
    /\ UNCHANGED renderVars

NextRoundTrip == JulianDayCall \/ InvJulianDayCall

SpecRoundTrip == InitRoundTrip /\ [][NextRoundTrip]_vars

----------------------------------------------------------------------------
(* bright_stars_process.py: fetch_bright_star_list on a small catalogue.    *)
(* A row of the file is kept as its kind and the fields the loop reads:     *)
(* "star" is an entry of 100 characters or more whose numbers parse,        *)
(* "malformed" such an entry with a field that float() or int() rejects,    *)
(* "short" an entry cut off before column 100, "comment" a blank line or a  *)
(* line that starts with #.  hr is the bright-star number printed in        *)
(* columns 1-4 of an entry, which the loop does not read.                   *)

MaxRows == 3

RowKinds == {"star", "malformed", "short", "comment"}

IsEntry(kind) == kind # "comment"

\* The rows of a catalogue file with the given kinds: the entries are
\* numbered 1, 2, ... in file order; two entries in a row are the components
\* of one double star when paired, and then share their HD number
RECURSIVE EntriesUpTo(_, _)
EntriesUpTo(kinds, k) ==
    IF k = 0 THEN 0
    ELSE EntriesUpTo(kinds, k - 1) + (IF IsEntry(kinds[k]) THEN 1 ELSE 0)

CatalogueOf(kinds, paired) ==
    [k \in DOMAIN kinds |->
        LET hr == IF IsEntry(kinds[k]) THEN EntriesUpTo(kinds, k) ELSE 0
        IN [kind |-> kinds[k], hr |-> hr,
            hd |-> IF paired THEN 1000 + (hr + 1) \div 2 ELSE 1000 + hr]]

Catalogues ==
    {CatalogueOf(kinds, paired) :
        kinds \in UNION {[1..n -> RowKinds] : n \in 0..MaxRows}, paired \in BOOLEAN}

\* bright_stars_process.py 55-66: the common names, by bright-star number,
\* as read from a well-formed bright_star_names.dat
star_names == [hr \in {1, 2, 4} |-> "Name_" \o ToString(hr)]

InitStarList ==
    /\ entry = "function"
    /\ component = "fetch_bright_star_list"
    /\ arguments \in [catalog : Catalogues]
    /\ settings = NoSettings
    /\ pc = "call"
    /\ raised = "none"
    /\ batch = NoBatch
    /\ written = << >>
    /\ page = NoPage
    /\ result = NoResult
    /\ composite = NoComposite
    /\ RenderIdle

\* bright_stars_process.py 42, 68-69: the empty dictionary and bs_num = 0
StarListStart ==
    /\ entry = "function"
    /\ component = "fetch_bright_star_list"
    /\ pc = "call"
    /\ result' = [returned |-> FALSE, bs_num |-> 0, stars |-> << >>]
    /\ cursor' = 1
    /\ pc' = "catalog"
    /\ UNCHANGED <<entry, arguments, component, settings, raised, batch, written, page, composite, bbox>>
    /\ UNCHANGED <<inputVars, tableVars, radii, drawn>>

\* bright_stars_process.py 128-139: the entry of the dictionary for a
\* row read while the counter was at bs_num
StarEntry(row, bs_num) ==
    [hd |-> row.hd, hr |-> row.hr, bs_num |-> bs_num,
     name_english |-> IF bs_num \in DOMAIN star_names THEN star_names[bs_num] ELSE "-"]

\* stars[hd] = (...): a new key, or the value of an old key replaced
Stored(stars_, hd, value) ==
    [h \in DOMAIN stars_ \cup {hd} |-> IF h = hd THEN value ELSE stars_[h]]

\* bright_stars_process.py 71-139: one line of the catalogue; after the
\* last, 141-147, the dictionary is returned
StarListRow ==
    /\ entry = "function"
    /\ component = "fetch_bright_star_list"
    /\ pc = "catalog"
    /\ IF cursor <= Len(arguments.catalog)
       THEN LET row == arguments.catalog[cursor]
            IN /\ cursor' = cursor + 1
               /\ pc' = pc
               /\ result' =
                    CASE row.kind \in {"comment", "short"} -> result
                      [] row.kind = "malformed" ->
                             [result EXCEPT !.bs_num = @ + 1]
                      [] row.kind = "star" ->
                             [result EXCEPT
                                 !.bs_num = @ + 1,
                                 !.stars = Stored(@, row.hd, StarEntry(row, result.bs_num + 1))]
       ELSE /\ result' = [result EXCEPT !.returned = TRUE]
            /\ pc' = "returned"
            /\ cursor' = 0
    /\ UNCHANGED <<entry, arguments, component, settings, raised, batch, written, page, composite, bbox>>
    /\ UNCHANGED <<inputVars, tableVars, radii, drawn>>

NextStarList == StarListStart \/ StarListRow

SpecStarList == InitStarList /\ [][NextStarList]_vars

----------------------------------------------------------------------------
\* C1: a component built with a latitude strictly between -10 and 10 fails
\* validation, so do_rendering is never reached for such a latitude,
\* whichever entry point built the settings.
C1_ExcludedLatitudeNeverRendered ==
    (pc = "do_rendering" /\ entry \in {"batch", "script"})
        => ~(-10 < settings.latitude /\ settings.latitude < 10)

----------------------------------------------------------------------------
HourGlyph(p) == p.kind = "text" /\ p.r = HourRadius

\* The same primitive with its angle and its rotation negated
AngleNegated(p) == [p EXCEPT !.theta = -@, !.rotation = -@]

HourGlyphs == SelectSeq(drawn, HourGlyph)

\* C8: the i-th hour glyph of MotherFront is at i/24 of a revolution for a
\* northern latitude and at the negated angle, with the rotation negated, for
\* the southern latitude of the same magnitude; no other primitive of the
\* MotherFront output depends on the sign of the latitude.
C8_HourGlyphsMirrored ==
    Rendering("MotherFront", "done") =>
        LET other == MotherFrontOutput([settings EXCEPT !.latitude = -@])
        IN /\ Len(other) = Len(drawn)
           /\ Len(HourGlyphs) = 24
           /\ \A k \in DOMAIN drawn :
                  IF HourGlyph(drawn[k])
                  THEN other[k] = AngleNegated(drawn[k])
                  ELSE other[k] = drawn[k]
           /\ \A i \in 0..23 :
                  LET g == HourGlyphs[i + 1]
                  IN /\ Abs(g.theta) * 24 = i * unit_rev
                     /\ g.rotation = g.theta
                     /\ (settings.latitude > 0 => g.theta >= 0)
                     /\ (settings.latitude < 0 => g.theta <= 0)

C8_Witness ==
    /\ Rendering("MotherFront", "done")
    /\ settings.latitude = -52
    /\ \E k \in DOMAIN drawn :
           /\ HourGlyph(drawn[k])
           /\ drawn[k].text = "F"
           /\ drawn[k].theta = -9000

Alphabet ==
    << "A", "B", "C", "D", "E", "F", "G", "H", "I", "J", "K", "L", "M", "N",
       "O", "P", "Q", "R", "S", "T", "U", "V", "W", "X", "Y", "Z" >>

Letter(t) == t \in Range(Alphabet)

\* C9 as claimed: the hour ring is a cross followed by the 24 letters of A-Z
\* without J and W.
C9_Claimed ==
    Rendering("MotherFront", "done") =>
        /\ HourGlyphs[1].text = "cross"
        /\ {HourGlyphs[k].text : k \in 2..Len(HourGlyphs)} = Range(Alphabet) \ {"J", "W"}

NotJVW(t) == t \notin {"J", "V", "W"}

\* C9: the hour ring of MotherFront is a cross glyph at the 0/24 position
\* followed by the 23 letters of A-Z without J, V and W, in alphabetical
\* order: 24 glyphs, one at each multiple of 1/24 of a revolution.
C9_HourRing ==
    Rendering("MotherFront", "done") =>
        /\ Len(HourGlyphs) = 24
        /\ [k \in 1..24 |-> HourGlyphs[k].text] = <<"cross">> \o SelectSeq(Alphabet, NotJVW)
        /\ \A k \in 1..24 : Abs(HourGlyphs[k].theta) * 24 = (k - 1) * unit_rev
        /\ \A k \in 1..24 : HourGlyphs[k].r = HourRadius

C9_Witness ==
    /\ Rendering("MotherFront", "done")
    /\ Len(HourGlyphs) = 24
    /\ HourGlyphs[22].text = "X"
    /\ HourGlyphs[21].text = "U"

----------------------------------------------------------------------------
IsStar(p) == p.kind = "star"
IsStick(p) == p.kind = "stick"
IsTick(p) == p.kind = "tick"
IsSkyPrim(p) == p.kind \in {"star", "stick", "tick"}

\* The loop over the catalogue stars has ended
StarsDone == Rendering("Rete", "ra_scale") \/ Rendering("Rete", "done")

\* The loop over the stick-figure rows has ended
SticksDone == Rendering("Rete", "stars") \/ StarsDone

\* Declination and right ascension as plotted: negated in the southern hemisphere
Plotted(x) == IF settings.latitude < 0 THEN -x ELSE x

\* r_4 * tan((90 - dec) / 2), from the radii of the running render
RadiusOf(dec) == TimesTan(radii.r[4], 2 * (90 - Plotted(dec)))

StarQualifies(st) == st.mag <= 400 /\ RadiusOf(st.dec) <= radii.r[2]

MarkerOf(p, st) ==
    /\ IsStar(p)
    /\ p.r = RadiusOf(st.dec)
    /\ p.theta = 100 * Plotted(st.ra)
    /\ p.size = (180 * (500 - st.mag)) \div 100

\* C5: a star marker is emitted for a star of the catalogue if and only if
\* its magnitude is <= 4.0 and its projected radius is <= r_2; no star
\* fainter than 4.0 and no star projecting beyond r_2 is emitted.
C5_StarFilter ==
    StarsDone =>
        LET markers == SelectSeq(drawn, IsStar)
        IN /\ \A k \in DOMAIN stars :
                  (\E j \in DOMAIN markers : MarkerOf(markers[j], stars[k]))
                      <=> StarQualifies(stars[k])
           /\ \A j \in DOMAIN markers :
                  /\ markers[j].r <= radii.r[2]
                  /\ \E k \in DOMAIN stars :
                         MarkerOf(markers[j], stars[k]) /\ stars[k].mag <= 400
           /\ Len(markers) = Cardinality({k \in DOMAIN stars : StarQualifies(stars[k])})

\* A star of magnitude exactly 4.0 is drawn and another star is left out
C5_Witness ==
    /\ StarsDone
    /\ \E k \in DOMAIN stars : stars[k].mag = 400 /\ StarQualifies(stars[k])
    /\ \E k \in DOMAIN stars : ~StarQualifies(stars[k])
    /\ \E j \in DOMAIN drawn : IsStar(drawn[j])

StickQualifies(row) ==
    RadiusOf(row.dec1) <= radii.r[2] /\ RadiusOf(row.dec2) <= radii.r[2]

SegmentOf(p, row) ==
    /\ IsStick(p)
    /\ p.r = RadiusOf(row.dec1)
    /\ p.theta = 100 * Plotted(row.ra1)
    /\ p.r2 = RadiusOf(row.dec2)
    /\ p.theta2 = 100 * Plotted(row.ra2)

\* C6: a stick-figure segment is drawn if and only if both of its endpoints
\* project to a radius <= r_2; a row with either endpoint beyond r_2 draws
\* nothing, and both endpoints of a drawn segment are the projections of the
\* tabulated endpoints.
C6_WholeSegmentsOnly ==
    SticksDone =>
        LET segments == SelectSeq(drawn, IsStick)
        IN /\ \A k \in DOMAIN sticks :
                  (\E j \in DOMAIN segments : SegmentOf(segments[j], sticks[k]))
                      <=> StickQualifies(sticks[k])
           /\ \A j \in DOMAIN segments :
                  /\ segments[j].r <= radii.r[2]
                  /\ segments[j].r2 <= radii.r[2]
                  /\ \E k \in DOMAIN sticks : SegmentOf(segments[j], sticks[k])
           /\ Len(segments) = Cardinality({k \in DOMAIN sticks : StickQualifies(sticks[k])})

\* A row whose first endpoint is inside and whose second is outside was read,
\* and nothing was drawn for it
C6_Witness ==
    /\ SticksDone
    /\ \E k \in DOMAIN sticks :
           /\ RadiusOf(sticks[k].dec1) <= radii.r[2]
           /\ RadiusOf(sticks[k].dec2) > radii.r[2]
    /\ \A j \in DOMAIN drawn : ~IsStick(drawn[j])

\* The same primitive at the same radii with its angles negated
Mirrored(p) == [p EXCEPT !.theta = -@, !.theta2 = -@]

Northern(s) == [s EXCEPT !.latitude = Abs(@)]

\* C7 as claimed: the markers and segments emitted for latitude -L are those
\* emitted for +L, each at the same radius with its angle negated.
C7_Claimed ==
    (Rendering("Rete", "done") /\ settings.latitude < 0) =>
        LET north == ReteOutput(Northern(settings), sticks, stars)
        IN {drawn[k] : k \in {j \in DOMAIN drawn : IsStar(drawn[j]) \/ IsStick(drawn[j])}}
           = {Mirrored(north[k]) : k \in {j \in DOMAIN north : IsStar(north[j]) \/ IsStick(north[j])}}

NegatedStars(rows) == [k \in DOMAIN rows |-> [rows[k] EXCEPT !.ra = -@, !.dec = -@]]

NegatedSticks(rows) ==
    [k \in DOMAIN rows |->
        [rows[k] EXCEPT !.ra1 = -@, !.dec1 = -@, !.ra2 = -@, !.dec2 = -@]]

\* C7: the markers and segments emitted for latitude -L are those emitted for
\* +L from the tables with every right ascension and declination negated; the
\* ecliptic ticks are the same in both hemispheres and are their own mirror
\* image.
C7_SouthernSky ==
    Rendering("Rete", "done") =>
        LET other == ReteOutput([settings EXCEPT !.latitude = -@],
                                NegatedSticks(sticks), NegatedStars(stars))
            ticks == SelectSeq(drawn, IsTick)
        IN /\ SelectSeq(drawn, IsSkyPrim) = SelectSeq(other, IsSkyPrim)
           /\ Len(ticks) = 180
           /\ \A k \in DOMAIN ticks :
                  \E j \in DOMAIN ticks :
                      /\ (ticks[j].theta + ticks[k].theta) % unit_rev = 0
                      /\ ticks[j].r = ticks[k].r
                      /\ ticks[j].r2 = ticks[k].r2

\* A southern render that drew a star the northern render leaves out
C7_Witness ==
    /\ Rendering("Rete", "done")
    /\ settings.latitude < 0
    /\ \E j \in DOMAIN drawn : IsStar(drawn[j]) /\ drawn[j].theta = -22000
    /\ \E k \in DOMAIN stars : stars[k].dec = 89

----------------------------------------------------------------------------
\* do_rendering has defined its radii
RadiiDefined == entry = "call" /\ pc \notin {"render_to_file", "do_rendering"}

SquareAtOrigin(b) ==
    /\ b.x_min = b.y_min
    /\ b.x_min = -b.x_max
    /\ b.x_min = -b.y_max

\* C2 as claimed: the half-side of the climate's bounding box is r_tab
C2_Claimed ==
    (RadiiDefined /\ component = "Climate") =>
        (SquareAtOrigin(bbox) /\ bbox.x_max = radii.tab)

\* C2: the climate's bounding box is a square centred on the origin whose
\* half-side is r_1 - 2.5 * d_12, one millimetre more than the radius r_tab
\* of the tab that do_rendering draws, for every settings value.
C2_BoundingBox ==
    (RadiiDefined /\ component = "Climate") =>
        /\ SquareAtOrigin(bbox)
        /\ 2 * bbox.x_max = 2 * r_1 - 5 * d_12
        /\ bbox.x_max = radii.tab + unit_mm

\* A southern simplified climate, rendered to the end
C2_Witness ==
    /\ Rendering("Climate", "done")
    /\ settings.latitude = -80
    /\ settings.astrolabe_type = "simple"
    /\ bbox.x_max > radii.tab
    /\ \E k \in DOMAIN drawn : drawn[k].kind = "arc" /\ drawn[k].r = radii.tab

\* C3: the thirteen radii of MotherBack.do_rendering are strictly decreasing
\* from the outer rim to the central hole and strictly positive, whatever the
\* latitude.
C3_MotherBackRadii ==
    (RadiiDefined /\ component = "MotherBack") =>
        /\ Len(radii.r) = 13
        /\ \A i \in 1..12 : radii.r[i] > radii.r[i + 1]
        /\ radii.r[13] > 0

\* The back of the mother rendered to the end with its thirteen circles
C3_Witness ==
    /\ Rendering("MotherBack", "done")
    /\ settings.latitude = -52
    /\ \A i \in 2..13 : \E k \in DOMAIN drawn :
           drawn[k].kind = "circle" /\ drawn[k].r = radii.r[i]

Decreasing(q) == \A i \in 1..(Len(q) - 1) : q[i] > q[i + 1]

\* C4 as claimed: r_2 > r_3 > r_4 > r_5 > 0 on the climate and the rete
C4_Claimed ==
    (RadiiDefined /\ component \in {"Climate", "Rete"}) =>
        Decreasing(<<radii.r[2], radii.r[3], radii.r[4], radii.r[5], 0>>)

\* C4: on the climate and the rete the central hole r_3 is the innermost
\* circle, r_2 > r_4 > r_5 > r_3 > 0 (outer edge, equator, tropic of Cancer,
\* hole), so the radii do not decrease in the order of their numbers; on the
\* front of the mother r_1 > r_2 > r_3 > r_4 > r_5 > 0.
C4_RadiiOrder ==
    /\ (RadiiDefined /\ component \in {"Climate", "Rete"}) =>
           Decreasing(<<radii.r[2], radii.r[4], radii.r[5], radii.r[3], 0>>)
    /\ (RadiiDefined /\ component = "MotherFront") =>
           Decreasing(<<radii.r[1], radii.r[2], radii.r[3], radii.r[4], radii.r[5], 0>>)

\* A climate whose tropic of Cancer has been drawn outside its central hole
C4_Witness ==
    /\ Rendering("Climate", "done")
    /\ radii.r[3] < radii.r[5]
    /\ \E k \in DOMAIN drawn : drawn[k].kind = "circle" /\ drawn[k].r = radii.r[5]
    /\ \E k \in DOMAIN drawn : drawn[k].kind = "clip" /\ drawn[k].r2 = radii.r[3]

\* The two interpolators have just been built from the whole table
InterpolatorsBuilt == Rendering("MotherBack", "calendar") /\ cursor = 1

\* The days t of the table's range on which the interpolated longitude of
\* the next day is less than that of day t
Descents(x, y) ==
    {t \in x[1]..(x[Len(x)] - 1) : Interp1d(x, y, t + 1) < Interp1d(x, y, t)}

\* C10: evaluated at increasing Julian days within the tabulated year,
\* theta_1394 and theta_1974 give non-decreasing longitudes but for a single
\* wraparound of one revolution, also between the two rows where the
\* tabulated longitude passes from the last sign back to the first.
C10_Monotone ==
    InterpolatorsBuilt =>
        /\ Cardinality(Descents(x_1974, y_1974)) <= 1
        /\ Cardinality(Descents(x_1394, y_1394)) <= 1

----------------------------------------------------------------------------
\* Is date a before date b, both <<year, month, day>>
DateBefore(a, b) ==
    \/ a[1] < b[1]
    \/ a[1] = b[1] /\ a[2] < b[2]
    \/ a[1] = b[1] /\ a[2] = b[2] /\ a[3] < b[3]

CalledDate == <<arguments.year, arguments.month, arguments.day>>

\* The dates after 9 December 1582, the last Julian date of the function, and
\* before 20 December 1582, its first Gregorian date
InCalendarGap ==
    /\ DateBefore(<<1582, 12, 9>>, CalledDate)
    /\ DateBefore(CalledDate, <<1582, 12, 20>>)

JulianDayDone == component = "julian_day" /\ pc \in {"raised", "returned"}

\* C11: julian_day raises, and returns no Julian date, for exactly the dates
\* strictly after its last Julian date and strictly before its first
\* Gregorian date; for every other date it returns a Julian date.
C11_GapDatesOnly ==
    JulianDayDone =>
        /\ (pc = "raised") <=> InCalendarGap
        /\ (pc = "raised") => (raised = "IndexError" /\ ~result.returned)
        /\ (pc = "returned") => (raised = "none" /\ result.returned /\ result.value > 0)

C11_Witness ==
    /\ JulianDayDone
    /\ pc = "raised"
    /\ CalledDate = <<1582, 12, 15>>

C11_WitnessEdges ==
    /\ JulianDayDone
    /\ pc = "returned"
    /\ CalledDate \in {<<1582, 12, 9>>, <<1582, 12, 20>>}

----------------------------------------------------------------------------
TableAborted == entry = "call" /\ pc = "page_exit" /\ raised # "none"

\* C12: a malformed or short row of an input table is skipped alone and the
\* rows after it are still read: no row of the stick-figure table, of the
\* solar-longitude table or of the saints' days aborts the load.
C12_BadRowSkippedAlone == ~TableAborted

\* The aborts caused by a short row: the cursor still points at it
AbortAtShortRow ==
    /\ TableAborted
    /\ \/ component = "Rete" /\ ~StickUnpacks(sticks[cursor])
       \/ component = "MotherBack" /\ Len(y_1974) < Len(x_1974)
       \/ component = "MotherBack" /\ Len(y_1974) = Len(tuckerman)
             /\ ~SaintUnpacks(saints[cursor])

----------------------------------------------------------------------------
UnknownFormat ==
    /\ entry = "call"
    /\ arguments.img_format \notin {"pdf", "png", "svg"}
    /\ pc # "render_to_file"

\* C13: an image format outside {pdf, png, svg} is fatal: the construction
\* of the GraphicsPage raises, the page has no surface, do_rendering is not
\* reached, no file is written, and the finalizer of the page changes
\* nothing.
C13_UnknownFormatFatal ==
    UnknownFormat =>
        /\ raised = "AssertionError"
        /\ pc = "uncaught"
        /\ page.surface = "none"
        /\ written = << >>
        /\ drawn = << >>

C13_Witness ==
    /\ UnknownFormat
    /\ arguments.img_format = "jpg"
    /\ page.finalized
    /\ written = << >>

\* A supported format does get its file, once the with block is left
C13_WitnessSupported ==
    /\ entry = "call"
    /\ arguments.img_format = "svg"
    /\ page.finalized
    /\ written # << >>

----------------------------------------------------------------------------
UnmappedKey == entry = "call" /\ (ThemeRaises(settings) \/ TextRaises(settings))

RenderingStarted == pc \notin {"render_to_file", "do_rendering"}

\* C14: a render whose settings name a theme or a language that is no key
\* of its table fails at once: once do_rendering has taken a step, KeyError
\* has been raised and no primitive has been drawn, for every component.
C14_FailsBeforeDrawing ==
    (UnmappedKey /\ RenderingStarted) => (raised = "KeyError" /\ drawn = << >>)

\* An unmapped theme alone does fail before anything is drawn
ThemeFailsBeforeDrawing ==
    (entry = "call" /\ ThemeRaises(settings) /\ RenderingStarted)
        => (raised = "KeyError" /\ drawn = << >>)

\* The file of a render that an unmapped language aborted, with what was
\* drawn before the lookup
PartialFileWritten ==
    /\ entry = "call"
    /\ TextRaises(settings)
    /\ raised = "KeyError"
    /\ drawn # << >>
    /\ written # << >>

\* MotherFront never looks text[language] up
UnmappedLanguageRendered ==
    /\ entry = "call"
    /\ component = "MotherFront"
    /\ TextRaises(settings)
    /\ pc = "done"

----------------------------------------------------------------------------
BatchStopped == entry = "batch" /\ pc \in {"exit", "uncaught"}

\* C15: in the batch driver a failure while one (latitude, language)
\* combination is rendered aborts that combination only: the run does not
\* stop while another combination is still to be rendered.
C15_OthersStillRendered ==
    (entry = "batch" /\ pc = "uncaught")
        => CombinationsAfter(batch.lang, batch.lat) = {}

----------------------------------------------------------------------------
\* How many times the file f was written
WritesOf(f) == Cardinality({i \in DOMAIN written : written[i] = f})

\* The output files of the combination the batch driver is at
CombinationFiles ==
    [component : {BatchParts[i] : i \in DOMAIN BatchParts},
     format : {FormatChoices[i] : i \in DOMAIN FormatChoices},
     latitude : {settings.latitude}, language : {settings.language}]

\* C19: the batch driver renders each part of a combination in all formats
\* once, and when it is done with a combination each file of a (component,
\* format) pair of that combination, the combined part included, has been
\* written exactly once.
C19_EachFileOnce ==
    entry = "batch" =>
        /\ \A i \in DOMAIN BatchParts : RenderPasses(BatchParts[i]) = 1
        /\ pc \in {"combination_done", "uncaught"}
              => \A f \in CombinationFiles : WritesOf(f) = 1

\* No run of the driver as it stands writes a file twice: it stops before
\* the loop over the combined part is reached
NoFileTwice ==
    entry = "batch" => \A i, j \in DOMAIN written : written[i] = written[j] => i = j

CombinedNeverReached == entry = "batch" => component # "CompositeComponent"

----------------------------------------------------------------------------
\* 10 to 85 degrees at 5-degree spacing in both hemispheres, plus 52N
ClaimedLatitudes == {l \in -85..85 : Abs(l) >= 10 /\ l % 5 = 0} \cup {52}

\* The latitudes for which the loop body of the driver is entered
LoopLatitudes ==
    {BatchLatitudes[i] : i \in DOMAIN BatchLatitudes} \ {l \in -90..90 : Skipped(l)}

RenderedLatitudes == {written[i].latitude : i \in DOMAIN written}

\* C20: the batch driver renders the parts for every latitude from 10 to 85
\* degrees at 5-degree spacing in both hemispheres, plus 52N, and for no
\* latitude strictly between -10 and 10.
C20_LatitudesRendered ==
    entry = "batch" =>
        /\ LoopLatitudes = ClaimedLatitudes
        /\ \A l \in RenderedLatitudes : ~(-10 < l /\ l < 10)
        /\ BatchStopped => RenderedLatitudes = ClaimedLatitudes

\* What does hold of the loop: every claimed latitude but 85S, and none in
\* the dead band
LoopLatitudesButOne ==
    /\ LoopLatitudes = ClaimedLatitudes \ {-85}
    /\ \A l \in RenderedLatitudes : ~(-10 < l /\ l < 10)

----------------------------------------------------------------------------
CompositeBoxReturned ==
    entry = "function" /\ component = "CompositeComponent" /\ pc = "returned"

ItemBoxes == {ItemBoundingBox(composite.components[i]) : i \in DOMAIN composite.components}

\* Does the box a contain the box b
BoxContains(a, b) ==
    /\ a.x_min <= b.x_min
    /\ a.x_max >= b.x_max
    /\ a.y_min <= b.y_min
    /\ a.y_max >= b.y_max

\* C16: the bounding box of a composite is the union of the boxes of its
\* components: it contains every one of them, and each of its four edges is
\* the same edge of the box of some component.
C16_UnionOfBoxes ==
    CompositeBoxReturned =>
        /\ \A b \in ItemBoxes : BoxContains(result.value, b)
        /\ \E b \in ItemBoxes : result.value.x_min = b.x_min
        /\ \E b \in ItemBoxes : result.value.x_max = b.x_max
        /\ \E b \in ItemBoxes : result.value.y_min = b.y_min
        /\ \E b \in ItemBoxes : result.value.y_max = b.y_max

\* A composite whose box is the box of none of its components
C16_Witness ==
    /\ CompositeBoxReturned
    /\ composite.components = <<"Rule", "Climate">>
    /\ result.value \notin ItemBoxes

\* The box is returned for every list but the empty one
C16_ReturnsUnlessEmpty ==
    (entry = "function" /\ component = "CompositeComponent" /\ pc # "call")
        => (pc = "raised") <=> (composite.components = << >>)

----------------------------------------------------------------------------
\* The do_rendering of the composite has returned
CompositeRendered ==
    /\ entry = "call"
    /\ component = "CompositeComponent"
    /\ pc \in {"page_exit", "returned"}

\* C17: CompositeComponent.do_rendering calls the do_rendering of every
\* component of its list once, in list order, and what it draws on the one
\* context is what the components draw alone, one after the other in list
\* order.
C17_ConcatenationInListOrder ==
    CompositeRendered =>
        /\ [i \in DOMAIN composite.starts |-> composite.starts[i].component]
               = composite.components
        /\ drawn = Flatten([i \in DOMAIN composite.components |->
                               ComponentOutput(composite.components[i], settings)])

C17_Witness ==
    /\ CompositeRendered
    /\ composite.components = <<"Climate", "MotherFront">>
    /\ Len(drawn) > Len(MotherFrontOutput(settings))

----------------------------------------------------------------------------
\* What the i-th component of the composite drew
Segment(i) ==
    SubSeq(drawn, composite.starts[i].at + 1,
           IF i < Len(composite.starts) THEN composite.starts[i + 1].at ELSE Len(drawn))

\* The clipping regions the components before the i-th left on the context
ClipsLeftBefore(i) ==
    {drawn[k] : k \in {j \in 1..composite.starts[i].at : drawn[j].kind = "clip"}}

\* The primitives of the i-th component that those regions do not hide
Shown(i) ==
    SelectSeq(Segment(i), LAMBDA p : \A c \in ClipsLeftBefore(i) : ~Hidden(p, c))

\* C18: in a composite render, whatever the components and their order,
\* the drawing state an earlier component left on the context does not
\* change what a later component draws: every component's output is what
\* it is when the component is rendered alone.
C18_NoLeftoverState ==
    CompositeRendered =>
        \A i \in DOMAIN composite.starts :
            Shown(i) = ComponentOutput(composite.components[i], settings)

\* The list of the batch driver's combined part is not affected: MotherFront
\* sets no clipping region
CombinedPartUnaffected ==
    (CompositeRendered /\ composite.components = CombinedParts)
        => \A i \in DOMAIN composite.starts :
               Shown(i) = ComponentOutput(composite.components[i], settings)

\* The outer circle of MotherFront, hidden by the region Climate left
OuterCircleHidden ==
    /\ CompositeRendered
    /\ composite.components = <<"Climate", "MotherFront">>
    /\ \E k \in DOMAIN Segment(2) :
          /\ Segment(2)[k] = Circle(0, r_1)
          /\ \E c \in ClipsLeftBefore(2) : Hidden(Segment(2)[k], c)

----------------------------------------------------------------------------
\* The arcs of constant azimuth on the plate, and the compass points written
\* at their ends
AzimuthArcs == SelectSeq(drawn, LAMBDA p : p.kind = "azimuth")

AzimuthLabels ==
    {drawn[k].text : k \in {j \in DOMAIN drawn :
                             drawn[j].kind = "azimuth_label" /\ drawn[j].text # ""}}

AzimuthLoopDone == entry = "call" /\ component = "Climate" /\ pc \in {"hours", "cross", "done"}

CompassPoints == {directions[i] : i \in DOMAIN directions}

\* C21: once the loop over the azimuths has run, the plate carries sixteen
\* arcs of constant azimuth, and every one of the sixteen compass points of
\* the direction table is written at an end of one of them.
C21_SixteenLabelledArcs ==
    AzimuthLoopDone =>
        /\ Len(AzimuthArcs) = 16
        /\ AzimuthLabels = CompassPoints

\* What the loop over range(1, 16) draws: fifteen arcs, the seven even
\* steps labelled at both ends, so that fourteen compass points are
\* written and the table's "N" and "S" are not
FifteenArcsFourteenPoints ==
    AzimuthLoopDone =>
        /\ Len(AzimuthArcs) = 15
        /\ AzimuthLabels = CompassPoints \ {directions[1], directions[9]}

\* The two labels of an arc change ends with the hemisphere
LabelsExchangedInSouth ==
    AzimuthLoopDone =>
        \A k \in DOMAIN drawn :
            (drawn[k].kind = "azimuth" /\ (drawn[k].theta + 9000) % 2250 = 0) =>
                LET step == (drawn[k].theta + 9000) \div 1125
                    a == directions[step \div 2 + 1]
                    b == directions[step \div 2 + 9]
                IN /\ drawn[k + 1].text = IF settings.latitude < 0 THEN b ELSE a
                   /\ drawn[k + 2].text = IF settings.latitude < 0 THEN a ELSE b

----------------------------------------------------------------------------
\* The declination scale of a finished Rule
RuleDone == entry = "call" /\ component = "Rule" /\ pc \in {"altitudes", "done"}

\* The declinations (as looped over, i.e. by radius) that carry a tick of
\* the kind k, and those that carry a label
TicksOfKind(k) == {drawn[j].cy : j \in {i \in DOMAIN drawn : drawn[i].kind = k}}

LabelsAt(dec) ==
    Cardinality({j \in DOMAIN drawn : drawn[j].kind = "dec_label" /\ drawn[j].cy = dec})

TenDegreeSteps == {Declinations[k] : k \in {i \in DOMAIN Declinations : Declinations[i] % 10 = 0}}

\* C22: on the declination scale of the rule, in either hemisphere, the
\* ticks at the multiples of 10 degrees are the major ticks, each with a
\* label on both sides, and all the others are minor and unlabelled, so
\* that the same radii carry major ticks for latitude L and -L.
C22_MajorTicksEveryTen ==
    RuleDone =>
        /\ TicksOfKind("major") = TenDegreeSteps
        /\ \A dec \in TenDegreeSteps : LabelsAt(dec) = 2
        /\ TicksOfKind("minor") = {Declinations[k] : k \in DOMAIN Declinations} \ TenDegreeSteps
        /\ \A dec \in TicksOfKind("minor") : LabelsAt(dec) = 0

\* What the test (dec < 60) and (dec % 10 == 0) gives: in the north the
\* ticks of 60 and 70 degrees are minor, in the south, where the test sees
\* -60 and -70, they are major
MajorTicksByHemisphere ==
    RuleDone =>
        /\ TicksOfKind("major") =
              IF settings.latitude < 0 THEN TenDegreeSteps ELSE TenDegreeSteps \ {60, 70}
        /\ \A dec \in TicksOfKind("major") : LabelsAt(dec) = 2
        /\ \A dec \in TicksOfKind("minor") : LabelsAt(dec) = 0

\* A northern rule whose 60-degree tick is a minor one
NorthernSixtyMinor ==
    /\ RuleDone
    /\ settings.latitude = 52
    /\ 60 \in TicksOfKind("minor")

----------------------------------------------------------------------------
\* A page whose constructor returned: render_to_file entered its with block
PageConstructed == entry = "call" /\ page.format # "none" /\ Surface(page.format) # "none"

WithBlockLeft == pc \in {"returned", "exit", "uncaught"}

\* C23: a page that render_to_file constructed is finalized exactly once
\* on every way out of the with block, by return or by an exception of
\* do_rendering: inside the block the surface is open and nothing is
\* written; from the exit on the surface is None and the file has been
\* written once, however often __del__ or __exit__ is called afterwards.
C23_FinalizedExactlyOnce ==
    PageConstructed =>
        /\ pc \in {"do_rendering", "page_exit"} => (page.surface # "none" /\ written = << >>)
        /\ WithBlockLeft => (page.surface = "none" /\ written = << OutputFile >>)

\* do_rendering raised, the exception left render_to_file, and the
\* finalizer has run on the page as well
C23_Witness ==
    /\ PageConstructed
    /\ pc = "uncaught"
    /\ raised = "KeyError"
    /\ page.finalized
    /\ written = << OutputFile >>

\* The same after a render that returned
C23_WitnessReturned ==
    /\ PageConstructed
    /\ pc = "exit"
    /\ raised = "none"
    /\ page.finalized
    /\ written = << OutputFile >>

----------------------------------------------------------------------------
\* The rows of the table already drawn on the calendars
RowsOnCalendar ==
    IF entry = "call" /\ component = "MotherBack"
    THEN IF pc = "calendar" THEN cursor - 1
         ELSE IF pc \in {"months", "saints", "shadow_scale", "done"} THEN Len(tuckerman)
         ELSE 0
    ELSE 0

\* The angles of the day-ticks on the page, in the order drawn
DayTickAngles ==
    LET T == SelectSeq(drawn, LAMBDA p : p.kind = "day_tick")
    IN [i \in DOMAIN T |-> T[i].theta]

RECURSIVE IntervalSum(_, _)
IntervalSum(rows, k) == IF k = 0 THEN 0 ELSE IntervalSum(rows, k - 1) + rows[k].interval

\* The angle of the marker of row k on the 1974 calendar
MarkerAngle(k) == 3000 * (tuckerman[k].z1974 - 1) + tuckerman[k].a1974

\* The angle the ticks of row k start from
TicksFrom(k) ==
    LET p == IF k = 1 THEN 27940 ELSE MarkerAngle(k - 1)
    IN IF p > MarkerAngle(k) THEN p - 36000 ELSE p

\* C24: on the 1974 calendar each row of the table, of interval n and angle
\* theta, has exactly n day-ticks, at p + (theta - p) * k / n for k = 1..n,
\* where p is the angle of the row before (279.4 degrees at the start),
\* less one revolution when it is beyond theta: they are in non-decreasing
\* order, the last is at theta itself, and the ticks on the page number the
\* sum of the intervals of the rows drawn.
C24_DayTicksInterpolated ==
    LET T == DayTickAngles
    IN /\ Len(T) = IntervalSum(tuckerman, RowsOnCalendar)
       /\ \A k \in 1..RowsOnCalendar :
             LET n == tuckerman[k].interval
                 at == IntervalSum(tuckerman, k - 1)
             IN /\ \A i \in 1..n :
                       T[at + i] = TicksFrom(k) + ((MarkerAngle(k) - TicksFrom(k)) * i) \div n
                /\ \A i \in 1..(n - 1) : T[at + i] <= T[at + i + 1]
                /\ T[at + n] = MarkerAngle(k)

\* The whole table is on the calendar, with the 365 ticks of the year, and
\* one row's ticks started a revolution below the row before it
C24_Witness ==
    /\ RowsOnCalendar = Len(tuckerman)
    /\ RowsOnCalendar > 0
    /\ Len(DayTickAngles) = 365
    /\ \E k \in 2..RowsOnCalendar : TicksFrom(k) = MarkerAngle(k - 1) - 36000

----------------------------------------------------------------------------
\* The day of the year of a date of 1974, 1 January being day 1
DayOfYear(d, m) == DaysBefore(m) + d

LetterOfDay(n) == <<"a", "b", "c", "d", "e", "f", "g">>[((n - 1) % 7) + 1]

\* The saint's day drawn last, and its two texts on the page
SaintDrawn == entry = "call" /\ component = "MotherBack" /\ pc = "saints" /\ cursor > 1

\* C25: the letter of a date (d, m) of 1974 is the letter of "abcdefg" at
\* index (day of the year - 1) mod 7: "a" for 1 January, the same letter
\* seven days later, never the empty string; and on the page the letter
\* of a saint's day is written at the same calendar angle as the name.
C25_SundayLetters ==
    /\ (entry = "function" /\ component = "sunday_letter" /\ pc = "returned") =>
          /\ result.value = LetterOfDay(DayOfYear(arguments.day, arguments.month))
          /\ (arguments.day = 1 /\ arguments.month = 1) => result.value = "a"
          /\ result.value # ""
          /\ \A dt \in Dates1974 :
                DayOfYear(dt.d, dt.m) = DayOfYear(arguments.day, arguments.month) + 7
                    => sunday_letter(dt.d, dt.m) = result.value
    /\ SaintDrawn =>
          LET row == saints[cursor - 1]
              name == drawn[Len(drawn) - 1]
              letter == drawn[Len(drawn)]
          IN /\ name.kind = "circular_text" /\ name.text = row.name
             /\ letter.kind = "circular_text"
             /\ letter.text = LetterOfDay(DayOfYear(row.d, row.m))
             /\ letter.theta = name.theta
             /\ name.theta = Interp1d(x_1974, y_1974, julian_day(1974, row.m, row.d))

\* 24 June, day 175 of the year, drawn with its letter "g"
C25_Witness ==
    /\ SaintDrawn
    /\ saints[cursor - 1] = Saint(24, 6, "Johannes")
    /\ drawn[Len(drawn)].text = "g"

\* The letter of 1 January
C25_WitnessNewYear ==
    /\ entry = "function" /\ component = "sunday_letter" /\ pc = "returned"
    /\ arguments.day = 1 /\ arguments.month = 1
    /\ result.value = "a"

----------------------------------------------------------------------------
\* The row of the table drawn last carries a day number
RowLabelled ==
    /\ entry = "call" /\ component = "MotherBack" /\ pc = "calendar" /\ cursor > 1
    /\ DayLabelled(tuckerman[cursor - 1].d)

\* The two glyphs of that row on a ring, as drawn: with the 1394 ring they
\* are the last two primitives and those of 1974 come before its marker
GlyphsOf(ring) ==
    LET L == Len(drawn)
    IN IF ring = "day_label_1394" \/ settings.astrolabe_type # "full"
       THEN << drawn[L - 1], drawn[L] >>
       ELSE << drawn[L - 4], drawn[L - 3] >>

RingsDrawn ==
    IF settings.astrolabe_type = "full" THEN {"day_label_1394", "day_label_1974"}
    ELSE {"day_label_1974"}

EitherSide(g) == g[1].r = g[2].r /\ g[1].theta + 40 = g[2].theta

\* C26: on each calendar ring a labelled day d of the table is written as
\* two glyphs either side of its tick, the tens digit floor(d / 10) and the
\* units digit d mod 10, so that both rings show the number d.
C26_DigitsOnBothRings ==
    RowLabelled =>
        \A ring \in RingsDrawn :
            LET g == GlyphsOf(ring)
                d == tuckerman[cursor - 1].d
            IN /\ g[1].kind = ring /\ g[2].kind = ring
               /\ EitherSide(g)
               /\ g[1].text = ToString(d \div 10)
               /\ g[2].text = ToString(d % 10)

\* The ring of 1974 does show floor(d / 10) and d mod 10
Ring1974Digits ==
    RowLabelled =>
        LET g == GlyphsOf("day_label_1974")
            d == tuckerman[cursor - 1].d
        IN /\ g[1].kind = "day_label_1974" /\ g[2].kind = "day_label_1974"
           /\ EitherSide(g)
           /\ g[1].text = ToString(d \div 10)
           /\ g[2].text = ToString(d % 10)

\* The ring of 1394 rounds d / 10: its tens digit is one too large for the
\* days 27 to 29, and right for 10, 20, 30 and 31
Ring1394Rounded ==
    (RowLabelled /\ settings.astrolabe_type = "full") =>
        LET g == GlyphsOf("day_label_1394")
            d == tuckerman[cursor - 1].d
        IN /\ EitherSide(g)
           /\ g[1].text = ToString(IF d % 10 > 5 THEN d \div 10 + 1 ELSE d \div 10)
           /\ g[2].text = ToString(d % 10)

\* 28 February on the two rings: "2" "8" for 1974 and "3" "8" for 1394
February28As38 ==
    /\ RowLabelled
    /\ settings.astrolabe_type = "full"
    /\ tuckerman[cursor - 1].d = 28
    /\ GlyphsOf("day_label_1974")[1].text = "2"
    /\ GlyphsOf("day_label_1394")[1].text = "3"

----------------------------------------------------------------------------
\* The keys do_rendering of the component at hand reads and the settings
\* lack
MissingKeys ==
    {SettingsReads(component)[i] : i \in DOMAIN SettingsReads(component)} \ DOMAIN settings

AtDoRendering ==
    entry \in {"batch", "script"} /\ component \in Components /\ pc = "do_rendering"

\* C27: the settings built by the batch driver and by every script entry
\* hold each key that the do_rendering of the component rendered reads, so
\* that no render started from them stops on a missing key.
C27_SettingsKeysPresent == AtDoRendering => MissingKeys = {}

\* What the two kinds of entry point leave out: a script builds latitude
\* and language only, the batch driver latitude, language and theme
KeysLeftOut ==
    AtDoRendering =>
        MissingKeys =
            {"theme", "astrolabe_type"} \cap
                IF entry = "script"
                THEN {SettingsReads(component)[i] : i \in DOMAIN SettingsReads(component)}
                ELSE {SettingsReads(component)[i] : i \in DOMAIN SettingsReads(component)}
                         \ {"theme"}

\* The script entry of MotherFront stopped by the KeyError of 'theme'
ScriptStoppedOnTheme ==
    /\ entry = "script"
    /\ component = "MotherFront"
    /\ pc = "uncaught"
    /\ raised = "KeyError"
    /\ ~HasKey(settings, "theme")

\* The batch driver stopped in MotherBack by the KeyError of
\* 'astrolabe_type', with the default theme
BatchStoppedOnType ==
    /\ entry = "batch"
    /\ component = "MotherBack"
    /\ pc = "uncaught"
    /\ raised = "KeyError"
    /\ settings.theme \in themes
    /\ ~HasKey(settings, "astrolabe_type")

----------------------------------------------------------------------------
\* An entry point has parsed the command line and gone on to build settings
ArgumentsParsed == entry \in {"batch", "script"} /\ pc # "main"

\* C28: a theme name that argument parsing accepts is a key of the themes
\* table, and so the lookup themes[settings['theme']] at the start of a
\* render never fails for a theme that came from the command line.
C28_AcceptedThemeMapped ==
    /\ ArgumentsParsed => arguments.theme \in themes
    /\ (entry = "batch" /\ component \in Components /\ pc = "do_rendering")
          => ~ThemeRaises(settings)

\* The only accepted name that is no key of the table is "dark"
OnlyDarkUnmapped == ArgumentsParsed => (arguments.theme \in themes \/ arguments.theme = "dark")

\* astrolabe.py --theme dark: the first render, of MotherFront, stops with
\* the KeyError of the theme lookup
DarkStopsBatch ==
    /\ entry = "batch"
    /\ arguments.theme = "dark"
    /\ component = "MotherFront"
    /\ pc = "uncaught"
    /\ raised = "KeyError"
    /\ ThemeRaises(settings)

----------------------------------------------------------------------------
\* A day that its month has in every year (29 February is left out)
DayOfMonth == arguments.day <= months[arguments.month].mlen

Inverted == entry = "function" /\ component = "julian_day" /\ pc = "inverted"

DateGiven ==
    [year |-> arguments.year, month |-> arguments.month, day |-> arguments.day,
     hour |-> 12, minute |-> 0, sec |-> 0]

\* C29: for every calendar date on which julian_day does not raise,
\* inv_julian_day of the Julian date of its noon is that date again, at
\* 12:00:00.
C29_RoundTrip == (Inverted /\ DayOfMonth) => result.date = DateGiven

\* Where the round trip does hold: up to julian_day's last Julian date,
\* 9 December 1582, and from 1 March 2000 to the end of 2024, where the
\* number of centuries b is 16
RoundTripOutsideGap ==
    (Inverted /\ DayOfMonth
       /\ (DateBefore(CalledDate, <<1582, 12, 10>>) \/ ~DateBefore(CalledDate, <<2000, 3, 1>>)))
        => result.date = DateGiven

\* Between the two, inv_julian_day never gives the date back
NoRoundTripInside ==
    (Inverted /\ DayOfMonth
       /\ ~DateBefore(CalledDate, <<1582, 12, 10>>) /\ DateBefore(CalledDate, <<2000, 3, 1>>))
        => result.date # DateGiven

\* 20 December 1582, julian_day's first Gregorian date, comes back as the
\* 10th: inv_julian_day is still on the Julian calendar, up to 2361221
SwitchDaysDiffer ==
    /\ Inverted
    /\ CalledDate = <<1582, 12, 20>>
    /\ result.value < 2361222
    /\ result.date.day = 10 /\ result.date.month = 12 /\ result.date.year = 1582

\* 1 January 1974 comes back as 31 December 1973
NewYear1974DayEarly ==
    /\ Inverted
    /\ CalledDate = <<1974, 1, 1>>
    /\ result.date.day = 31 /\ result.date.month = 12 /\ result.date.year = 1973

----------------------------------------------------------------------------
\* The stars loaded so far by fetch_bright_star_list
StarsLoaded ==
    IF entry = "function" /\ component = "fetch_bright_star_list" /\ pc # "call"
    THEN {result.stars[h] : h \in DOMAIN result.stars}
    ELSE {}

\* C30: whatever rows the catalogue holds, each star loaded was read with
\* the counter bs_num at its own bright-star number, the ordinal of its
\* row among the entries of the catalogue, and so carries the common name
\* of that number: a row that is skipped does not shift the numbers of the
\* stars after it.
C30_CounterIsHRNumber ==
    \A st \in StarsLoaded :
        /\ st.bs_num = st.hr
        /\ st.name_english = IF st.hr \in DOMAIN star_names THEN star_names[st.hr] ELSE "-"

\* The entries before number hr that are cut off before column 100
ShortBefore(hr) ==
    Cardinality({k \in DOMAIN arguments.catalog :
                    arguments.catalog[k].kind = "short" /\ arguments.catalog[k].hr < hr})

\* The counter is behind by the short entries passed: comments and
\* malformed entries alone never shift it
CounterBehindByShortEntries ==
    \A st \in StarsLoaded : st.bs_num = st.hr - ShortBefore(st.hr)

\* A star that follows a malformed entry, loaded with its own number and
\* name
NumberKeptAfterMalformed ==
    /\ entry = "function" /\ component = "fetch_bright_star_list" /\ pc = "returned"
    /\ Len(arguments.catalog) = 2
    /\ arguments.catalog[1].kind = "malformed"
    /\ \E st \in StarsLoaded : st.hr = 2 /\ st.bs_num = 2 /\ st.name_english = "Name_2"

\* The star with number 2, after a short entry, loaded as number 1 with
\* the name of star 1
NameOfStarBefore ==
    /\ entry = "function" /\ component = "fetch_bright_star_list" /\ pc = "returned"
    /\ Len(arguments.catalog) = 2
    /\ arguments.catalog[1].kind = "short"
    /\ \E st \in StarsLoaded : st.hr = 2 /\ st.bs_num = 1 /\ st.name_english = "Name_1"
====
